---------------------------- MODULE Spec2Model ----------------------------
(***************************************************************************)
(* Model of the Bitaxe hashrate benchmark's sweep controller               *)
(* (src/src/benchmark/core.py, class BenchmarkRunner) together with the    *)
(* device gateway it drives (src/src/benchmark/bitaxe_client.py).          *)
(*                                                                         *)
(* BenchmarkRunner.run is one asyncio task.  The variable pc is the        *)
(* position of that task: every value of pc is a suspension point (an      *)
(* await) or a loop head of run / _apply_settings / _run_iteration.  The   *)
(* control operations request_stop, request_pause and resume are plain     *)
(* synchronous methods called from other tasks of the same event loop, so  *)
(* each is one atomic action, and the event loop runs it only while the run *)
(* task is suspended in an await (or is not running at all): see Suspended. *)
(* Every test a loop head makes and the operation it starts are one action, *)
(* as no await separates them in the source.                                *)
(***************************************************************************)
EXTENDS Integers, Sequences, FiniteSets, TLC

(***************************************************************************)
(* Configuration defaults (src/src/config.py).                             *)
(***************************************************************************)
max_temp == 66
max_vr_temp == 86
max_power == 30
max_allowed_voltage == 1400
min_allowed_voltage == 1000
max_allowed_frequency == 1200
min_allowed_frequency == 400
min_input_voltage == 4800
max_input_voltage == 5500
voltage_increment == 15
frequency_increment == 20
\* hashrate_tolerance = 0.94, kept as a percentage to stay in the integers
hashrate_tolerance_pct == 94
trim_outliers == 3
\* _get_system_info_with_retry(retries=3)
retries == 3
\* "if consecutive_failures >= 3" in the stabilization wait
MaxConsecutiveFailures == 3
\* quick mode multiplies both increments by 4
QuickFactor == 4

(***************************************************************************)
(* Bounds of the model.                                                    *)
(***************************************************************************)
\* voltage steps between the device's default voltage and the global ceiling
MaxVSteps == 1
\* timing.benchmark_time // timing.sample_interval
TotalSamples == 2
\* polls of the stabilization wait that fit in timing.sleep_time
StabPolls == 3
\* the longest list of samples and the largest trim count of the evaluations
\* of the pure computations
MaxSamples == 4
MaxTrim == 2

(***************************************************************************)
(* Values                                                                  *)
(***************************************************************************)
\* Python's None for an optional record: the empty sequence; Some(x) is a value
None == <<>>
Some(x) == <<x>>
\* a telemetry field that is missing from the device's answer
Absent == 0 - 1
\* an optional integer argument left out (None and 0 are both falsy in "x or y")
NoArg == 0

IDLE == "idle"
INITIALIZING == "initializing"
STABILIZING == "stabilizing"
RUNNING == "running"
PAUSED == "paused"
COMPLETED == "completed"
ERROR == "error"

FULL_SWEEP == "full_sweep"
QUICK == "quick"

\* The device this model talks to: its rated voltage sits MaxVSteps configured
\* increments below the global ceiling and its rated frequency one increment
\* below the ceiling, so that the sweep of a run that starts from them has
\* MaxVSteps + 1 voltage levels of at most two frequencies each.
DeviceDefaultVoltage == max_allowed_voltage - MaxVSteps * voltage_increment
DeviceDefaultFrequency == max_allowed_frequency - frequency_increment
DeviceInfos ==
    { [small_core_count |-> 1000, asic_count |-> 1,
       default_voltage |-> DeviceDefaultVoltage,
       default_frequency |-> DeviceDefaultFrequency] }

\* Arguments of run() that the model enumerates.
InitialVoltageArgs == {NoArg, max_allowed_voltage, max_allowed_voltage + voltage_increment}
InitialFrequencyArgs == {NoArg, max_allowed_frequency}
\* a quick sweep is also started one quick step below the frequency ceiling,
\* so that it has two frequencies to try
InitialFrequencyArgsFor(m) ==
    InitialFrequencyArgs \cup
        (IF m = QUICK THEN {max_allowed_frequency - QuickFactor * frequency_increment} ELSE {})
Modes == {FULL_SWEEP, QUICK}
MaxVoltageArgs == {NoArg}
\* max_frequency: left out (None), or supplied: 0, one increment below the
\* device's rated frequency, or the rated frequency
MaxFrequencyArgs ==
    {None, Some(0), Some(DeviceDefaultFrequency - frequency_increment),
     Some(DeviceDefaultFrequency)}

\* Telemetry readings (/api/system/info) the device may answer with.  A field
\* that is absent from the JSON is None.
HashRates == {1000, 1200}
GoodReading(h) ==
    [temp |-> 60, vrTemp |-> 70, voltage |-> 5000, hashRate |-> h, power |-> 20]
HotReading ==
    [temp |-> max_temp, vrTemp |-> 70, voltage |-> 5000, hashRate |-> 1000, power |-> 20]
Readings == {GoodReading(h) : h \in HashRates} \cup {HotReading}

\* The readings that may follow the samples `rates` of one iteration: the
\* hash rate of the device is steady while one setting is sampled (every good
\* sample of an iteration reports the hash rate of its first), the
\* temperature may rise at any sample.
SteadyReadings(rates) ==
    IF rates = <<>> THEN Readings
    ELSE {r \in Readings : r = HotReading \/ r.hashRate = rates[1]}

(***************************************************************************)
(* Pure helpers                                                            *)
(***************************************************************************)
\* Python's "x or d" on an optional integer argument
PyOr(x, d) == IF x = NoArg THEN d ELSE x

Min2(a, b) == IF a <= b THEN a ELSE b
Max2(a, b) == IF a >= b THEN a ELSE b

\* list(range(initial, sweep_max_v + 1, inc)), or [initial] when that is empty
VoltageLevels(initial, sweep_max_v, inc) ==
    LET n == IF sweep_max_v >= initial THEN ((sweep_max_v - initial) \div inc) + 1 ELSE 0
    IN  IF n = 0 THEN <<initial>>
        ELSE [i \in 1..n |-> initial + (i - 1) * inc]

RECURSIVE SumSeq(_)
SumSeq(s) == IF s = <<>> THEN 0 ELSE Head(s) + SumSeq(Tail(s))

\* insertion of x into the ascending sequence s
RECURSIVE InsertSorted(_, _)
InsertSorted(x, s) ==
    IF s = <<>> THEN <<x>>
    ELSE IF x <= Head(s) THEN <<x>> \o s
    ELSE <<Head(s)>> \o InsertSorted(x, Tail(s))

\* sorted(s)
RECURSIVE Sorted(_)
Sorted(s) == IF s = <<>> THEN <<>> ELSE InsertSorted(Head(s), Sorted(Tail(s)))

\* sorted_hashrates[trim:-trim] if len(sorted_hashrates) > trim * 2 else
\* sorted_hashrates; the slice [0:-0] is [0:0], the empty list
TrimmedHashrates(sorted_hashrates, trim) ==
    IF Len(sorted_hashrates) > trim * 2
    THEN IF trim = 0 THEN <<>>
         ELSE SubSeq(sorted_hashrates, trim + 1, Len(sorted_hashrates) - trim)
    ELSE sorted_hashrates

\* An IterationResult.  average_hashrate is the exact quotient hr_sum / hr_count.
MkResult(v, f, hsum, hcount, within, err) ==
    [core_voltage |-> v, frequency |-> f, hr_sum |-> hsum, hr_count |-> hcount,
     hashrate_within_tolerance |-> within, error_reason |-> err]
ErrorResult(v, f, err) == MkResult(v, f, 0, 1, FALSE, err)
\* run()'s local "result" before the first iteration returns
NoResult == ErrorResult(0, 0, "UNSET")
NoError == "None"

\* self.config.safety.max_temp: the chip-temperature ceiling in force; it
\* starts at the configured max_temp and is assigned by run() when it is given
\* a max_temp_override
VARIABLE safety_max_temp

\* faulty variant: the regulator's temperature is checked before the chip's
CheckSample_VrBeforeChip(info) ==
    LET input_voltage == IF info.voltage = Absent THEN 0 ELSE info.voltage
    IN  IF info.temp = Absent THEN "TEMPERATURE_DATA_FAILURE"
        ELSE IF info.temp < 5 THEN "TEMPERATURE_BELOW_5"
        ELSE IF info.vrTemp # Absent /\ info.vrTemp >= max_vr_temp THEN "VR_TEMP_EXCEEDED"
        ELSE IF info.temp >= safety_max_temp THEN "CHIP_TEMP_EXCEEDED"
        ELSE IF input_voltage < min_input_voltage THEN "INPUT_VOLTAGE_BELOW_MIN"
        ELSE IF input_voltage > max_input_voltage THEN "INPUT_VOLTAGE_ABOVE_MAX"
        ELSE IF info.hashRate = Absent \/ info.power = Absent THEN "HASHRATE_POWER_DATA_FAILURE"
        ELSE IF info.power > max_power THEN "POWER_CONSUMPTION_EXCEEDED"
        ELSE NoError

\* The safety checks _run_iteration makes on one reading, in order: the error
\* kind of the first check that fails, or NoError when the sample is accepted.
CheckSample(info) ==
    LET input_voltage == IF info.voltage = Absent THEN 0 ELSE info.voltage
    IN  IF info.temp = Absent THEN "TEMPERATURE_DATA_FAILURE"
        ELSE IF info.temp < 5 THEN "TEMPERATURE_BELOW_5"
        ELSE IF info.temp >= safety_max_temp THEN "CHIP_TEMP_EXCEEDED"
        ELSE IF info.vrTemp # Absent /\ info.vrTemp >= max_vr_temp THEN "VR_TEMP_EXCEEDED"
        ELSE IF input_voltage < min_input_voltage THEN "INPUT_VOLTAGE_BELOW_MIN"
        ELSE IF input_voltage > max_input_voltage THEN "INPUT_VOLTAGE_ABOVE_MAX"
        ELSE IF info.hashRate = Absent \/ info.power = Absent THEN "HASHRATE_POWER_DATA_FAILURE"
        ELSE IF info.power > max_power THEN "POWER_CONSUMPTION_EXCEEDED"
        ELSE NoError

\* Python truthiness of an optional number: None and 0 are false
Truthy(x) == x # Absent /\ x # 0

\* The ceilings the stabilization wait checks on one reading
StabilizationBreach(info) ==
    \/ Truthy(info.temp) /\ info.temp >= safety_max_temp
    \/ Truthy(info.vrTemp) /\ info.vrTemp >= max_vr_temp
    \/ Truthy(info.power) /\ info.power > max_power

\* faulty variant: a hash rate equal to the threshold is out of tolerance
WithinTolerance_Strict(hsum, hcount, f, di) ==
    hsum * 1000 * 100 > f * di.small_core_count * di.asic_count * hashrate_tolerance_pct * hcount

\* expected_hashrate = frequency * (small_core_count * asic_count / 1000) and
\* average_hashrate >= expected_hashrate * hashrate_tolerance, in integers
WithinTolerance(hsum, hcount, f, di) ==
    hsum * 1000 * 100 >= f * di.small_core_count * di.asic_count * hashrate_tolerance_pct * hcount

\* The tail of _run_iteration ("Calculate results") on the accepted samples
Aggregate(v, f, rates, di) ==
    IF rates = <<>> THEN ErrorResult(v, f, "NO_DATA_COLLECTED")
    ELSE LET trimmed == TrimmedHashrates(Sorted(rates), trim_outliers)
             hsum == SumSeq(trimmed)
             hcount == Len(trimmed)
         IN  IF hsum > 0
             THEN MkResult(v, f, hsum, hcount, WithinTolerance(hsum, hcount, f, di), NoError)
             ELSE ErrorResult(v, f, "ZERO_HASHRATE")

\* a.average_hashrate > b.average_hashrate
HashrateGreater(a, b) == a.hr_sum * b.hr_count > b.hr_sum * a.hr_count

\* max(rs, key=lambda r: r.average_hashrate): the first result that no other
\* result exceeds
BestByHashrate(rs) ==
    LET best == CHOOSE i \in 1..Len(rs) :
                    /\ \A j \in 1..Len(rs) : ~HashrateGreater(rs[j], rs[i])
                    /\ \A j \in 1..(i - 1) : HashrateGreater(rs[i], rs[j])
    IN  rs[best]

VARIABLES
    \* BenchmarkRunner fields
    state, stop_requested, pause_requested, resume_event, results,
    saved_state, device_info,
    \* arguments and locals of run()
    args, pc, initial_volt, initial_freq, v_inc, f_inc, sweep_max_f, voltage_levels,
    quick, v_step, freq, iteration_num, abort_all, result, applied_settings,
    \* locals of _apply_settings()
    apply, consecutive_failures, stab_elapsed,
    \* locals of _run_iteration() and _get_system_info_with_retry()
    sample_num, hash_rates, attempt,
    \* the device: the settings last written to it
    dev_voltage, dev_frequency,
    \* observation of the run: the calls of the final settings application, the
    \* last trial candidate with its outcome, the one before it, and whether a
    \* trial candidate was written to the device
    final_applies, last_trial, prev_trial, trial_written,
    \* the service layer (web/app.py): the response to the last start request,
    \* and whether reset_benchmark is waiting for the task of the run to end
    start_response, reset_waiting, error_events,
    \* the last evaluation of one of the pure computations of the runner
    calc,
    \* what the listeners of the current run were handed: the iteration-complete
    \* events in the order of emission, and the last status event
    events,
    \* web/app.py: whether the global `runner` still refers to the runner that
    \* executes the task or was replaced (by None, then by a new object) when
    \* the configuration was updated, and whether the stop
    \* endpoint has accepted a request during the current task
    service,
    \* the set_values call in progress on the runner, if any
    setv

ctl == <<stop_requested, pause_requested, resume_event>>
plan == <<initial_volt, initial_freq, v_inc, f_inc, sweep_max_f, voltage_levels, quick>>
loopv == <<v_step, freq, iteration_num, abort_all, result>>
applyv == <<apply, consecutive_failures, stab_elapsed>>
iterv == <<sample_num, hash_rates, attempt>>
dev == <<dev_voltage, dev_frequency>>
obs == <<final_applies, last_trial, prev_trial, trial_written>>
vars == <<state, results, saved_state, device_info, args, start_response, reset_waiting, service, setv, safety_max_temp, error_events, calc, events, pc, applied_settings,
          ctl, plan, loopv, applyv, iterv, dev, obs>>

NoArgs == [initial_voltage |-> NoArg, initial_frequency |-> NoArg, mode |-> FULL_SWEEP,
           max_voltage |-> NoArg, max_frequency |-> None,
           max_temp_override |-> NoArg]
NoCalc == [op |-> "none", input |-> <<>>, output |-> <<>>]
\* the BenchmarkStatus built by _set_state: iterations_completed is
\* len(self._results) at the moment of the call
StatusEvent(s, n) == Some([state |-> s, iterations_completed |-> n])
\* the IterationComplete handed to on_iteration_complete
IterationComplete(r, n) == [result |-> r, iteration_number |-> n]
NoEvents == [iteration_complete |-> <<>>, status |-> None]
\* no set_values call is in progress and none has returned
NoSetValues == [pc |-> "idle", consecutive_failures |-> 0, stab_elapsed |-> 0,
                response |-> "none", cause |-> "none"]
NoApply == [voltage |-> 0, frequency |-> 0, wait_for_stabilization |-> FALSE, caller |-> "none"]
NoTrial == [step |-> 0, voltage |-> 0, frequency |-> 0, outcome |-> "none",
            cancelled |-> FALSE, samples |-> 0, strikes_reset |-> 0]

Init ==
    /\ state = IDLE
    /\ stop_requested = FALSE
    /\ pause_requested = FALSE
    /\ resume_event = TRUE
    /\ results = <<>>
    /\ saved_state = None
    /\ device_info = None
    /\ args = NoArgs
    /\ start_response = "none"
    /\ reset_waiting = FALSE
    /\ error_events = 0
    /\ calc = NoCalc
    /\ events = NoEvents
    /\ service = [runner |-> "task", stop_accepted |-> FALSE]
    /\ setv = NoSetValues
    /\ safety_max_temp = max_temp
    /\ pc = "idle"
    /\ initial_volt = 0
    /\ initial_freq = 0
    /\ v_inc = 0
    /\ f_inc = 0
    /\ sweep_max_f = 0
    /\ voltage_levels = <<>>
    /\ quick = FALSE
    /\ v_step = 0
    /\ freq = 0
    /\ iteration_num = 0
    /\ abort_all = FALSE
    /\ result = NoResult
    /\ applied_settings = None
    /\ apply = NoApply
    /\ consecutive_failures = 0
    /\ stab_elapsed = 0
    /\ sample_num = 0
    /\ hash_rates = <<>>
    /\ attempt = 0
    /\ dev_voltage = DeviceDefaultVoltage
    /\ dev_frequency = DeviceDefaultFrequency
    /\ final_applies = 0
    /\ last_trial = NoTrial
    /\ prev_trial = NoTrial
    /\ trial_written = FALSE

(***************************************************************************)
(* Decisions of the controller                                             *)
(***************************************************************************)
\* Faulty variants of the decisions below; each property of the last section
\* is expected to fail when the decision it rests on is replaced by its variant.
ShouldPause_Never(pause, stop) == FALSE
InnerContinues_IgnoresStop(f, fmax, stop) == f <= fmax
StabilizationCancelled_Never(stop) == FALSE
IsThermalWall_AboveStart(err, f, f0) == err = "CHIP_TEMP_EXCEEDED" /\ f > f0
IsThermalWall_AnyFrequency(err, f, f0) == err = "CHIP_TEMP_EXCEEDED"
NextFrequency_Unchanged(f, inc) == f
FinalTarget_LastResult(rs, di) ==
    IF rs # <<>>
    THEN [voltage |-> rs[Len(rs)].core_voltage, frequency |-> rs[Len(rs)].frequency,
          wait_for_stabilization |-> FALSE, caller |-> "final"]
    ELSE [voltage |-> di.default_voltage, frequency |-> di.default_frequency,
          wait_for_stabilization |-> FALSE, caller |-> "final"]

PauseAccepted_Always(st) == TRUE

\* request_pause: "if self._state in (RUNNING, STABILIZING)"
PauseAccepted(st) == st \in {RUNNING, STABILIZING}

\* resume: "if self._state == PAUSED"
ResumeAccepted(st) == st = PAUSED

\* _check_pause: "if self._pause_requested and not self._stop_requested"
ShouldPause(pause, stop) == pause /\ ~stop

\* outer loop: "if self._stop_requested or abort_all: break"
OuterBreaks(stop, abort) == stop \/ abort

\* inner loop: "while freq <= sweep_max_f and not self._stop_requested"
InnerContinues(f, fmax, stop) == f <= fmax /\ ~stop

\* stabilization wait: "if self._stop_requested: return False"
StabilizationCancelled(stop) == stop

\* failed iteration: 'error_reason == "CHIP_TEMP_EXCEEDED" and freq == initial_freq'
IsThermalWall(err, f, f0) == err = "CHIP_TEMP_EXCEEDED" /\ f = f0

\* within tolerance: "freq += f_inc"
NextFrequency(f, inc) == f + inc

\* "Apply best settings": the pair of the best result, or the device defaults,
\* applied with wait_for_stabilization=False
FinalTarget(rs, di) ==
    IF rs # <<>>
    THEN [voltage |-> BestByHashrate(rs).core_voltage,
          frequency |-> BestByHashrate(rs).frequency,
          wait_for_stabilization |-> FALSE, caller |-> "final"]
    ELSE [voltage |-> di.default_voltage, frequency |-> di.default_frequency,
          wait_for_stabilization |-> FALSE, caller |-> "final"]

\* "Validate starting values": the four ValueError checks
ValidStart(v, f) ==
    /\ v >= min_allowed_voltage
    /\ v <= max_allowed_voltage
    /\ f >= min_allowed_frequency
    /\ f <= max_allowed_frequency

\* effective increment: "increment * (4 if quick else 1)"
EffectiveIncrement(inc, q) == inc * (IF q THEN QuickFactor ELSE 1)

\* sweep limit: "min(max_arg or config_max, config_max)"
SweepMax(arg, config_max) == Min2(PyOr(arg, config_max), config_max)

\* "Compute refine range for quick mode": None, or the RefineRange around the
\* best result by hash rate, clamped to the safety bounds
refine_range(q, rs, vinc, finc) ==
    IF q /\ rs # <<>>
    THEN LET best == BestByHashrate(rs)
         IN  Some([voltage_min |-> Max2(best.core_voltage - vinc, min_allowed_voltage),
                   voltage_max |-> Min2(best.core_voltage + vinc, max_allowed_voltage),
                   frequency_min |-> Max2(best.frequency - finc, min_allowed_frequency),
                   frequency_max |-> Min2(best.frequency + finc, max_allowed_frequency)])
    ELSE None

(***************************************************************************)
(* Control operations, called from outside the run task                    *)
(***************************************************************************)
\* web/app.py, current_task: the asyncio task that runs run(); it is done
\* when run() has returned (the wrapper run_benchmark awaits nothing else)
current_task ==
    IF pc = "idle" THEN "none" ELSE IF pc = "done" THEN "done" ELSE "active"

\* faulty variant of TaskActive: start_benchmark without its guard
TaskActive_Never(t) == FALSE

\* start_benchmark: "if current_task and not current_task.done()"
TaskActive(t) == t = "active"

\* The positions of the run task at which other code of the event loop can
\* run: the awaits of run, _check_pause, _apply_settings, _run_iteration and
\* _get_system_info_with_retry, and the positions before and after the call.
Suspended ==
    pc \in {"idle", "fetch", "wait_outer", "wait_inner", "set", "restart",
            "stab_info", "stab_sleep", "sample", "sample_sleep", "done"}

\* the positions inside the stabilization wait of _apply_settings
StabPcs == {"stab", "stab_info", "stab_sleep"}

\* faulty variant of request_stop: the gate of _check_pause is not opened
request_stop_NoWake ==
    /\ Suspended
    /\ service.runner = "task"
    /\ stop_requested' = TRUE
    /\ pause_requested' = FALSE
    /\ service' = [service EXCEPT !.stop_accepted = @ \/ TaskActive(current_task)]
    /\ last_trial' = IF pc \in StabPcs THEN [last_trial EXCEPT !.cancelled = TRUE]
                     ELSE last_trial
    /\ UNCHANGED <<state, resume_event, results, saved_state, device_info, args, start_response, reset_waiting, setv, safety_max_temp, error_events, calc, events, pc,
                   applied_settings, plan, loopv, applyv, iterv, dev, final_applies,
                   prev_trial, trial_written>>

\* request_stop of the runner that executes the task (directly, or through
\* POST /api/benchmark/stop while the service's runner is that object)
request_stop ==
    /\ Suspended
    /\ service.runner = "task"
    /\ stop_requested' = TRUE
    /\ pause_requested' = FALSE
    /\ resume_event' = TRUE
    /\ service' = [service EXCEPT !.stop_accepted = @ \/ TaskActive(current_task)]
    \* observation: the stop arrived during the stabilization wait of the trial
    /\ last_trial' = IF pc \in StabPcs THEN [last_trial EXCEPT !.cancelled = TRUE]
                     ELSE last_trial
    /\ UNCHANGED <<state, results, saved_state, device_info, args, start_response, reset_waiting, setv, safety_max_temp, error_events, calc, events, pc, applied_settings,
                   plan, loopv, applyv, iterv, dev, final_applies, prev_trial,
                   trial_written>>

request_pause ==
    /\ Suspended
    /\ service.runner = "task"
    /\ PauseAccepted(state)
    /\ pause_requested' = TRUE
    /\ UNCHANGED <<stop_requested, resume_event>>
    /\ UNCHANGED <<state, results, saved_state, device_info, args, start_response, reset_waiting, service, setv, safety_max_temp, error_events, calc, events, pc, applied_settings,
                   plan, loopv, applyv, iterv, dev, obs>>

resume ==
    /\ Suspended
    /\ service.runner = "task"
    /\ ResumeAccepted(state)
    /\ pause_requested' = FALSE
    /\ resume_event' = TRUE
    /\ UNCHANGED stop_requested
    /\ UNCHANGED <<state, results, saved_state, device_info, args, start_response, reset_waiting, service, setv, safety_max_temp, error_events, calc, events, pc, applied_settings,
                   plan, loopv, applyv, iterv, dev, obs>>

(***************************************************************************)
(* run(): from the call to the first await (fetch_device_info)             *)
(***************************************************************************)
\* run() up to its first await, called by start_benchmark; the request's
\* max_temp is drawn from `overrides`
RunStartWith(overrides) ==
    /\ ~reset_waiting
    /\ start_response' = "started"
    /\ UNCHANGED reset_waiting
    /\ service' = [runner |-> "task", stop_accepted |-> FALSE]
    /\ UNCHANGED setv
    /\ error_events' = 0
    /\ UNCHANGED calc
    \* a frequency ceiling is supplied to full sweeps from the device's defaults
    /\ \E iv \in InitialVoltageArgs, m \in Modes, mv \in MaxVoltageArgs :
          \E if \in InitialFrequencyArgsFor(m) :
          \E mf \in IF iv = NoArg /\ if = NoArg /\ m = FULL_SWEEP
                    THEN MaxFrequencyArgs ELSE {None} :
            \* a run started while a set_values call is in progress is a
            \* full sweep from the global ceilings (a single trial)
            /\ setv.pc # "idle" =>
                  (iv = max_allowed_voltage /\ if = max_allowed_frequency /\ m = FULL_SWEEP)
            /\ \E mt \in overrides :
                  \* "if max_temp_override: self.config.safety.max_temp = ..."
                  /\ safety_max_temp' = PyOr(mt, safety_max_temp)
                  /\ args' = [initial_voltage |-> iv, initial_frequency |-> if,
                              mode |-> m, max_voltage |-> mv, max_frequency |-> mf,
                              max_temp_override |-> mt]
    /\ stop_requested' = FALSE
    /\ pause_requested' = FALSE
    /\ results' = <<>>
    /\ resume_event' = TRUE
    /\ state' = INITIALIZING
    /\ events' = [iteration_complete |-> <<>>, status |-> StatusEvent(INITIALIZING, 0)]
    /\ pc' = "fetch"
    \* fresh locals of the new call
    /\ initial_volt' = 0 /\ initial_freq' = 0 /\ v_inc' = 0 /\ f_inc' = 0
    /\ sweep_max_f' = 0 /\ voltage_levels' = <<>> /\ quick' = FALSE
    /\ v_step' = 0 /\ freq' = 0 /\ iteration_num' = 0 /\ abort_all' = FALSE
    /\ result' = NoResult /\ applied_settings' = None
    /\ apply' = NoApply /\ consecutive_failures' = 0 /\ stab_elapsed' = 0
    /\ sample_num' = 0 /\ hash_rates' = <<>> /\ attempt' = 0
    /\ final_applies' = 0 /\ last_trial' = NoTrial /\ prev_trial' = NoTrial
    /\ trial_written' = FALSE
    /\ UNCHANGED <<saved_state, device_info, dev>>

\* start_benchmark without a temperature override
RunStart ==
    /\ ~TaskActive(current_task)
    /\ RunStartWith({NoArg})

\* start_benchmark with max_temp set to the temperature of a good reading
RunStartOverride ==
    /\ ~TaskActive(current_task)
    /\ RunStartWith({GoodReading(1000).temp})

\* start_benchmark while the task of a run is not done: HTTP 409, raised
\* before anything is assigned and before run() is called
StartRejected ==
    /\ Suspended
    /\ TaskActive(current_task)
    /\ start_response' = "conflict"
    /\ UNCHANGED <<reset_waiting, service, setv, safety_max_temp, error_events, calc, events>>
    /\ UNCHANGED <<state, results, saved_state, device_info, args, pc, applied_settings,
                   ctl, plan, loopv, applyv, iterv, dev, obs>>

\* faulty variant: the failure is swallowed without an error event
FetchFails_Silent ==
    /\ pc = "fetch"
    /\ state' = ERROR
    /\ events' = [events EXCEPT !.status = StatusEvent(ERROR, Len(results))]
    /\ pc' = "done"
    /\ UNCHANGED <<results, saved_state, device_info, args, start_response, reset_waiting, service, setv, safety_max_temp,
                   error_events, calc, applied_settings,
                   ctl, plan, loopv, applyv, iterv, dev, obs>>

\* fetch_device_info raises (ConnectionError, or anything else): the run ends
\* in ERROR with no results
FetchFails ==
    /\ pc = "fetch"
    /\ error_events' = error_events + 1
    /\ UNCHANGED calc
    /\ state' = ERROR
    /\ events' = [events EXCEPT !.status = StatusEvent(ERROR, Len(results))]
    /\ pc' = "done"
    /\ UNCHANGED <<results, saved_state, device_info, args, start_response, reset_waiting, service, setv, safety_max_temp, applied_settings,
                   ctl, plan, loopv, applyv, iterv, dev, obs>>

\* fetch_device_info returns, a starting value is out of range: ValueError,
\* caught by the handler at the end of run
FetchThenInvalid ==
    /\ pc = "fetch"
    /\ \E di \in DeviceInfos :
        /\ ~ValidStart(PyOr(args.initial_voltage, di.default_voltage),
                       PyOr(args.initial_frequency, di.default_frequency))
        /\ device_info' = Some(di)
    /\ error_events' = error_events + 1
    /\ UNCHANGED calc
    /\ state' = ERROR
    /\ events' = [events EXCEPT !.status = StatusEvent(ERROR, Len(results))]
    /\ pc' = "done"
    /\ UNCHANGED <<results, saved_state, args, start_response, reset_waiting, service, setv, safety_max_temp, applied_settings,
                   ctl, plan, loopv, applyv, iterv, dev, obs>>

\* fetch_device_info returns and the start is valid: the sweep is planned, the
\* resume snapshot is saved and the voltage loop is entered
FetchThenPlan ==
    /\ pc = "fetch"
    /\ \E di \in DeviceInfos :
        LET iv == PyOr(args.initial_voltage, di.default_voltage)
            if == PyOr(args.initial_frequency, di.default_frequency)
            q == args.mode = QUICK
            vi == EffectiveIncrement(voltage_increment, q)
        IN  /\ ValidStart(iv, if)
            /\ device_info' = Some(di)
            /\ initial_volt' = iv
            /\ initial_freq' = if
            /\ quick' = q
            /\ v_inc' = vi
            /\ f_inc' = EffectiveIncrement(frequency_increment, q)
            /\ sweep_max_f' =
                  SweepMax(IF args.max_frequency = None THEN NoArg
                           ELSE args.max_frequency[1], max_allowed_frequency)
            /\ voltage_levels' =
                  VoltageLevels(iv, SweepMax(args.max_voltage, max_allowed_voltage), vi)
            /\ saved_state' = Some([current_voltage |-> iv, current_frequency |-> if,
                                    initial_voltage |-> iv, initial_frequency |-> if,
                                    iteration_num |-> 0])
    /\ iteration_num' = 0
    /\ abort_all' = FALSE
    /\ v_step' = 1
    /\ pc' = "outer"
    /\ UNCHANGED <<state, results, args, start_response, reset_waiting, service, setv, safety_max_temp, error_events, calc, events, applied_settings, freq, result,
                   ctl, applyv, iterv, dev, obs>>

(***************************************************************************)
(* run(): the two-level sweep                                              *)
(***************************************************************************)
\* the current ladder voltage
voltage == voltage_levels[v_step]

\* The top of one frequency step that is not paused: the snapshot is updated,
\* the state becomes STABILIZING and _apply_settings(voltage, freq) is called,
\* which suspends in client.set_settings.
TrialStart(f) ==
    /\ saved_state' = Some([saved_state[1] EXCEPT !.current_voltage = voltage,
                                                  !.current_frequency = f,
                                                  !.iteration_num = iteration_num])
    /\ state' = STABILIZING
    /\ events' = [events EXCEPT !.status = StatusEvent(STABILIZING, Len(results))]
    /\ apply' = [voltage |-> voltage, frequency |-> f,
                 wait_for_stabilization |-> TRUE, caller |-> "trial"]
    /\ last_trial' = [step |-> v_step, voltage |-> voltage, frequency |-> f,
                      outcome |-> "pending", cancelled |-> FALSE, samples |-> 0, strikes_reset |-> 0]
    /\ prev_trial' = last_trial
    /\ pc' = "set"

\* head of "for v_step, voltage in enumerate(voltage_levels, 1)"
OuterDone ==
    /\ pc = "outer"
    /\ v_step > Len(voltage_levels) \/ OuterBreaks(stop_requested, abort_all)
    /\ pc' = "final"
    /\ UNCHANGED <<state, results, saved_state, device_info, args, start_response, reset_waiting, service, setv, safety_max_temp, error_events, calc, events, applied_settings,
                   ctl, plan, loopv, applyv, iterv, dev, obs>>

OuterPause ==
    /\ pc = "outer"
    /\ v_step <= Len(voltage_levels)
    /\ ~OuterBreaks(stop_requested, abort_all)
    /\ ShouldPause(pause_requested, stop_requested)
    /\ state' = PAUSED
    /\ events' = [events EXCEPT !.status = StatusEvent(PAUSED, Len(results))]
    /\ resume_event' = FALSE
    /\ pc' = "wait_outer"
    /\ UNCHANGED <<stop_requested, pause_requested>>
    /\ UNCHANGED <<results, saved_state, device_info, args, start_response, reset_waiting, service, setv, safety_max_temp, error_events, calc, applied_settings,
                   plan, loopv, applyv, iterv, dev, obs>>

OuterEnter ==
    /\ pc = "outer"
    /\ v_step <= Len(voltage_levels)
    /\ ~OuterBreaks(stop_requested, abort_all)
    /\ ~ShouldPause(pause_requested, stop_requested)
    /\ freq' = initial_freq
    /\ pc' = "inner"
    /\ UNCHANGED <<v_step, iteration_num, abort_all, result>>
    /\ UNCHANGED <<state, results, saved_state, device_info, args, start_response, reset_waiting, service, setv, safety_max_temp, error_events, calc, events, applied_settings,
                   ctl, plan, applyv, iterv, dev, obs>>

\* _check_pause at the top of a voltage level, released by a stop: break
WaitOuterStopped ==
    /\ pc = "wait_outer"
    /\ resume_event
    /\ stop_requested
    /\ pc' = "final"
    /\ UNCHANGED <<state, results, saved_state, device_info, args, start_response, reset_waiting, service, setv, safety_max_temp, error_events, calc, events, applied_settings,
                   ctl, plan, loopv, applyv, iterv, dev, obs>>

\* faulty variant: the gate is passed after a resume but the state is not
\* restored
WaitOuterResumed_StaysPaused ==
    /\ pc = "wait_outer"
    /\ resume_event
    /\ ~stop_requested
    /\ state' = state
    /\ events' = events
    /\ freq' = initial_freq
    /\ pc' = "inner"
    /\ UNCHANGED <<v_step, iteration_num, abort_all, result>>
    /\ UNCHANGED <<results, saved_state, device_info, args, start_response, reset_waiting, service, setv, safety_max_temp, error_events, calc, applied_settings,
                   ctl, plan, applyv, iterv, dev, obs>>

\* _check_pause at the top of a voltage level, released by resume
WaitOuterResumed ==
    /\ pc = "wait_outer"
    /\ resume_event
    /\ ~stop_requested
    /\ state' = RUNNING
    /\ events' = [events EXCEPT !.status = StatusEvent(RUNNING, Len(results))]
    /\ freq' = initial_freq
    /\ pc' = "inner"
    /\ UNCHANGED <<v_step, iteration_num, abort_all, result>>
    /\ UNCHANGED <<results, saved_state, device_info, args, start_response, reset_waiting, service, setv, safety_max_temp, error_events, calc, applied_settings,
                   ctl, plan, applyv, iterv, dev, obs>>

\* head of the frequency loop: the loop ends, the next voltage level follows
InnerDone ==
    /\ pc = "inner"
    /\ ~InnerContinues(freq, sweep_max_f, stop_requested)
    /\ v_step' = v_step + 1
    /\ pc' = "outer"
    /\ UNCHANGED <<freq, iteration_num, abort_all, result>>
    /\ UNCHANGED <<state, results, saved_state, device_info, args, start_response, reset_waiting, service, setv, safety_max_temp, error_events, calc, events, applied_settings,
                   ctl, plan, applyv, iterv, dev, obs>>

InnerPause ==
    /\ pc = "inner"
    /\ InnerContinues(freq, sweep_max_f, stop_requested)
    /\ ShouldPause(pause_requested, stop_requested)
    /\ state' = PAUSED
    /\ events' = [events EXCEPT !.status = StatusEvent(PAUSED, Len(results))]
    /\ resume_event' = FALSE
    /\ pc' = "wait_inner"
    /\ UNCHANGED <<stop_requested, pause_requested>>
    /\ UNCHANGED <<results, saved_state, device_info, args, start_response, reset_waiting, service, setv, safety_max_temp, error_events, calc, applied_settings,
                   plan, loopv, applyv, iterv, dev, obs>>

InnerTrial ==
    /\ pc = "inner"
    /\ InnerContinues(freq, sweep_max_f, stop_requested)
    /\ ~ShouldPause(pause_requested, stop_requested)
    /\ TrialStart(freq)
    /\ UNCHANGED <<results, device_info, args, start_response, reset_waiting, service, setv, safety_max_temp, error_events, calc, applied_settings, consecutive_failures,
                   stab_elapsed, ctl, plan, loopv, iterv, dev, final_applies,
                   trial_written>>

\* _check_pause at the top of a frequency step, released by a stop: the
\* frequency loop is left
WaitInnerStopped ==
    /\ pc = "wait_inner"
    /\ resume_event
    /\ stop_requested
    /\ v_step' = v_step + 1
    /\ pc' = "outer"
    /\ UNCHANGED <<freq, iteration_num, abort_all, result>>
    /\ UNCHANGED <<state, results, saved_state, device_info, args, start_response, reset_waiting, service, setv, safety_max_temp, error_events, calc, events, applied_settings,
                   ctl, plan, applyv, iterv, dev, obs>>

\* _check_pause at the top of a frequency step, released by resume: the state
\* is restored to RUNNING and the trial starts
WaitInnerResumed ==
    /\ pc = "wait_inner"
    /\ resume_event
    /\ ~stop_requested
    /\ TrialStart(freq)
    /\ UNCHANGED <<results, device_info, args, start_response, reset_waiting, service, setv, safety_max_temp, error_events, calc, applied_settings, consecutive_failures,
                   stab_elapsed, ctl, plan, loopv, iterv, dev, final_applies,
                   trial_written>>

(***************************************************************************)
(* _apply_settings                                                         *)
(***************************************************************************)
\* _apply_settings returns to the final settings application: the value is
\* ignored, the snapshot is cleared and the run is COMPLETED
ApplyReturnsToFinal ==
    /\ saved_state' = None
    /\ state' = COMPLETED
    /\ events' = [events EXCEPT !.status = StatusEvent(COMPLETED, Len(results))]
    /\ applied_settings' =
          IF results # <<>>
          THEN Some([voltage |-> apply.voltage, frequency |-> apply.frequency])
          ELSE None
    /\ pc' = "done"
    /\ UNCHANGED <<iteration_num, v_step, sample_num, hash_rates, last_trial>>

\* _apply_settings returns True to a trial: the state becomes RUNNING, the
\* iteration counter advances and _run_iteration starts
ApplyReturnsTrue ==
    /\ state' = RUNNING
    /\ events' = [events EXCEPT !.status = StatusEvent(RUNNING, Len(results))]
    /\ iteration_num' = iteration_num + 1
    /\ sample_num' = 0
    /\ hash_rates' = <<>>
    /\ last_trial' = [last_trial EXCEPT !.strikes_reset = 0]
    /\ pc' = "iter"
    /\ UNCHANGED <<saved_state, applied_settings, v_step>>

\* faulty variant: after a failed application the frequency loop of the same
\* voltage goes on
ApplyReturnsFalse_SameVoltage ==
    /\ v_step' = v_step
    /\ last_trial' = [last_trial EXCEPT !.outcome = "STABILIZATION_FAILED",
                                         !.strikes_reset = 0]
    /\ pc' = "inner"
    /\ UNCHANGED <<state, events, saved_state, applied_settings, iteration_num,
                   sample_num, hash_rates>>

\* _apply_settings returns False to a trial: "Stabilization failed, moving to
\* next voltage": the frequency loop is left
ApplyReturnsFalse ==
    /\ v_step' = v_step + 1
    /\ last_trial' = [last_trial EXCEPT !.outcome = "STABILIZATION_FAILED",
                                         !.strikes_reset = 0]
    /\ pc' = "outer"
    /\ UNCHANGED <<state, events, saved_state, applied_settings, iteration_num,
                   sample_num, hash_rates>>

\* _apply_settings returns r to its caller in run().  For the final settings
\* application the value is ignored: the snapshot is cleared and the run is
\* COMPLETED.  For a trial, True starts the sampling iteration and False
\* leaves the frequency loop ("Stabilization failed, moving to next voltage").
ApplyReturns(r) ==
    /\ apply' = NoApply
    /\ consecutive_failures' = 0
    /\ stab_elapsed' = 0
    /\ IF apply.caller = "final"
       THEN ApplyReturnsToFinal
       ELSE IF r THEN ApplyReturnsTrue ELSE ApplyReturnsFalse

\* client.set_settings succeeds: the pair is on the device; sleep 2 s and
\* issue the restart
SetSettingsOk ==
    /\ pc = "set"
    /\ dev_voltage' = apply.voltage
    /\ dev_frequency' = apply.frequency
    /\ trial_written' = (trial_written \/ apply.caller = "trial")
    /\ pc' = "restart"
    /\ UNCHANGED <<state, results, saved_state, device_info, args, start_response, reset_waiting, service, setv, safety_max_temp, error_events, calc, events, applied_settings,
                   ctl, plan, loopv, applyv, iterv, final_applies, last_trial,
                   prev_trial>>

\* client.set_settings fails: "Failed to apply settings", return False
SetSettingsFails ==
    /\ pc = "set"
    /\ ApplyReturns(FALSE)
    /\ UNCHANGED <<results, device_info, args, start_response, reset_waiting, service, setv, safety_max_temp, error_events, calc, ctl, plan, freq, abort_all, result,
                   attempt, dev, final_applies, prev_trial, trial_written>>

\* client.restart succeeds, no stabilization wanted: return True
RestartOkNoWait ==
    /\ pc = "restart"
    /\ ~apply.wait_for_stabilization
    /\ ApplyReturns(TRUE)
    /\ UNCHANGED <<results, device_info, args, start_response, reset_waiting, service, setv, safety_max_temp, error_events, calc, ctl, plan, freq, abort_all, result,
                   attempt, dev, final_applies, prev_trial, trial_written>>

\* client.restart succeeds: the stabilization wait begins
RestartOkWait ==
    /\ pc = "restart"
    /\ apply.wait_for_stabilization
    /\ consecutive_failures' = 0
    /\ stab_elapsed' = 0
    /\ pc' = "stab"
    /\ UNCHANGED <<state, results, saved_state, device_info, args, start_response, reset_waiting, service, setv, safety_max_temp, error_events, calc, events, applied_settings,
                   apply, ctl, plan, loopv, iterv, dev, obs>>

\* client.restart fails: "Failed to restart system", return False
RestartFails ==
    /\ pc = "restart"
    /\ ApplyReturns(FALSE)
    /\ UNCHANGED <<results, device_info, args, start_response, reset_waiting, service, setv, safety_max_temp, error_events, calc, ctl, plan, freq, abort_all, result,
                   attempt, dev, final_applies, prev_trial, trial_written>>

\* head of the stabilization loop, window elapsed: return True
StabElapsed ==
    /\ pc = "stab"
    /\ stab_elapsed >= StabPolls
    /\ ApplyReturns(TRUE)
    /\ UNCHANGED <<results, device_info, args, start_response, reset_waiting, service, setv, safety_max_temp, error_events, calc, ctl, plan, freq, abort_all, result,
                   attempt, dev, final_applies, prev_trial, trial_written>>

\* head of the stabilization loop, stop requested: return False
StabCancelled ==
    /\ pc = "stab"
    /\ stab_elapsed < StabPolls
    /\ StabilizationCancelled(stop_requested)
    /\ ApplyReturns(FALSE)
    /\ UNCHANGED <<results, device_info, args, start_response, reset_waiting, service, setv, safety_max_temp, error_events, calc, ctl, plan, freq, abort_all, result,
                   attempt, dev, final_applies, prev_trial, trial_written>>

\* head of the stabilization loop: poll the telemetry
StabPoll ==
    /\ pc = "stab"
    /\ stab_elapsed < StabPolls
    /\ ~StabilizationCancelled(stop_requested)
    /\ pc' = "stab_info"
    /\ UNCHANGED <<state, results, saved_state, device_info, args, start_response, reset_waiting, service, setv, safety_max_temp, error_events, calc, events, applied_settings,
                   ctl, plan, loopv, applyv, iterv, dev, obs>>

\* the poll returns None or raises: a strike; the third in a row fails the wait
StabInfoFails ==
    /\ pc = "stab_info"
    /\ IF consecutive_failures + 1 >= MaxConsecutiveFailures
       THEN ApplyReturns(FALSE)
       ELSE /\ consecutive_failures' = consecutive_failures + 1
            /\ pc' = "stab_sleep"
            /\ UNCHANGED <<apply, stab_elapsed>>
            /\ UNCHANGED <<state, events, saved_state, applied_settings, iteration_num, v_step,
                           sample_num, hash_rates, last_trial>>
    /\ UNCHANGED <<results, device_info, args, start_response, reset_waiting, service, setv, safety_max_temp, error_events, calc, ctl, plan, freq, abort_all, result,
                   attempt, dev, final_applies, prev_trial, trial_written>>

\* faulty variant: a successful poll leaves the count of failed polls as it is
StabInfoOk_KeepsStrikes ==
    /\ pc = "stab_info"
    /\ \E info \in Readings :
        IF StabilizationBreach(info)
        THEN ApplyReturns(FALSE)
        ELSE /\ last_trial' = [last_trial EXCEPT !.strikes_reset = consecutive_failures]
             /\ pc' = "stab_sleep"
             /\ UNCHANGED <<apply, stab_elapsed, consecutive_failures>>
             /\ UNCHANGED <<state, events, saved_state, applied_settings, iteration_num, v_step,
                            sample_num, hash_rates>>
    /\ UNCHANGED <<results, device_info, args, start_response, reset_waiting, service, setv, safety_max_temp, error_events, calc, ctl, plan, freq, abort_all, result,
                   attempt, dev, final_applies, prev_trial, trial_written>>

\* the poll returns a reading: the strikes are reset and the ceilings checked
StabInfoOk ==
    /\ pc = "stab_info"
    /\ \E info \in Readings :
        IF StabilizationBreach(info)
        THEN ApplyReturns(FALSE)
        ELSE /\ consecutive_failures' = 0
             /\ last_trial' = [last_trial EXCEPT !.strikes_reset = consecutive_failures]
             /\ pc' = "stab_sleep"
             /\ UNCHANGED <<apply, stab_elapsed>>
             /\ UNCHANGED <<state, events, saved_state, applied_settings, iteration_num, v_step,
                            sample_num, hash_rates>>
    /\ UNCHANGED <<results, device_info, args, start_response, reset_waiting, service, setv, safety_max_temp, error_events, calc, ctl, plan, freq, abort_all, result,
                   attempt, dev, final_applies, prev_trial, trial_written>>

\* "await asyncio.sleep(5)" of the stabilization loop
StabSleep ==
    /\ pc = "stab_sleep"
    /\ stab_elapsed' = stab_elapsed + 1
    /\ pc' = "stab"
    /\ UNCHANGED <<state, results, saved_state, device_info, args, start_response, reset_waiting, service, setv, safety_max_temp, error_events, calc, events, applied_settings,
                   apply, consecutive_failures, ctl, plan, loopv, iterv, dev,
                   obs>>

(***************************************************************************)
(* _run_iteration                                                          *)
(***************************************************************************)
\* _run_iteration returns r to run(); its locals are gone
IterationReturns(r) ==
    /\ result' = r
    /\ sample_num' = 0
    /\ hash_rates' = <<>>
    /\ attempt' = 0
    /\ pc' = "decide"

\* head of the sample loop: the loop ends (all samples taken, or a stop was
\* requested) and the samples collected are summarized
IterEnds ==
    /\ pc = "iter"
    /\ sample_num >= TotalSamples \/ stop_requested
    /\ IterationReturns(Aggregate(voltage, freq, hash_rates, device_info[1]))
    /\ UNCHANGED <<v_step, freq, iteration_num, abort_all>>
    /\ UNCHANGED <<state, results, saved_state, device_info, args, start_response, reset_waiting, service, setv, safety_max_temp, error_events, calc, events, applied_settings,
                   ctl, plan, applyv, dev, obs>>

\* head of the sample loop: the next telemetry read is issued
IterSample ==
    /\ pc = "iter"
    /\ sample_num < TotalSamples
    /\ ~stop_requested
    /\ attempt' = 0
    /\ pc' = "sample"
    /\ UNCHANGED <<sample_num, hash_rates>>
    /\ UNCHANGED <<state, results, saved_state, device_info, args, start_response, reset_waiting, service, setv, safety_max_temp, error_events, calc, events, applied_settings,
                   ctl, plan, loopv, applyv, dev, obs>>

\* faulty variant: the first failed attempt already ends the iteration
SampleReadFails_NoRetry ==
    /\ pc = "sample"
    /\ IterationReturns(ErrorResult(voltage, freq, "SYSTEM_INFO_FAILURE"))
    /\ UNCHANGED <<v_step, freq, iteration_num, abort_all>>
    /\ UNCHANGED <<state, results, saved_state, device_info, args, start_response, reset_waiting, service, setv, safety_max_temp, error_events, calc, events, applied_settings,
                   ctl, plan, applyv, dev, obs>>

\* one attempt of _get_system_info_with_retry returns None; after the last
\* attempt the iteration ends with SYSTEM_INFO_FAILURE
SampleReadFails ==
    /\ pc = "sample"
    /\ IF attempt + 1 >= retries
       THEN IterationReturns(ErrorResult(voltage, freq, "SYSTEM_INFO_FAILURE"))
       ELSE /\ attempt' = attempt + 1
            /\ pc' = "sample"
            /\ UNCHANGED <<result, sample_num, hash_rates>>
    /\ UNCHANGED <<v_step, freq, iteration_num, abort_all>>
    /\ UNCHANGED <<state, results, saved_state, device_info, args, start_response, reset_waiting, service, setv, safety_max_temp, error_events, calc, events, applied_settings,
                   ctl, plan, applyv, dev, obs>>

\* client.get_system_info raises something other than an httpx error (a body
\* that is not JSON): nothing in _run_iteration catches it, so it reaches the
\* "except Exception" of run: the run ends in ERROR
SampleReadRaises ==
    /\ pc = "sample"
    /\ error_events' = error_events + 1
    /\ UNCHANGED calc
    /\ state' = ERROR
    /\ events' = [events EXCEPT !.status = StatusEvent(ERROR, Len(results))]
    /\ sample_num' = 0
    /\ hash_rates' = <<>>
    /\ attempt' = 0
    /\ pc' = "done"
    /\ UNCHANGED <<results, saved_state, device_info, args, start_response, reset_waiting, service, setv, safety_max_temp, applied_settings,
                   ctl, plan, loopv, applyv, dev, obs>>

\* faulty variant: a rejected reading is skipped and sampling goes on
SampleRejected_Skips ==
    /\ pc = "sample"
    /\ \E info \in SteadyReadings(hash_rates) : CheckSample(info) # NoError
    /\ sample_num' = sample_num + 1
    /\ pc' = "iter"
    /\ UNCHANGED <<result, hash_rates, attempt>>
    /\ UNCHANGED <<v_step, freq, iteration_num, abort_all>>
    /\ UNCHANGED <<state, results, saved_state, device_info, args, start_response, reset_waiting, service, setv, safety_max_temp, error_events, calc, events, applied_settings,
                   ctl, plan, applyv, dev, obs>>

\* the read returns a reading that a safety check rejects
SampleRejected ==
    /\ pc = "sample"
    /\ \E info \in SteadyReadings(hash_rates) :
        /\ CheckSample(info) # NoError
        /\ IterationReturns(ErrorResult(voltage, freq, CheckSample(info)))
    /\ UNCHANGED <<v_step, freq, iteration_num, abort_all>>
    /\ UNCHANGED <<state, results, saved_state, device_info, args, start_response, reset_waiting, service, setv, safety_max_temp, error_events, calc, events, applied_settings,
                   ctl, plan, applyv, dev, obs>>

\* the read returns a reading that is accepted: it is recorded, and the
\* sampler sleeps unless this was the last planned sample
SampleAccepted ==
    /\ pc = "sample"
    /\ \E info \in SteadyReadings(hash_rates) :
        /\ CheckSample(info) = NoError
        /\ hash_rates' = Append(hash_rates, info.hashRate)
    /\ last_trial' = [last_trial EXCEPT !.samples = @ + 1]
    /\ IF sample_num < TotalSamples - 1
       THEN pc' = "sample_sleep" /\ UNCHANGED sample_num
       ELSE pc' = "iter" /\ sample_num' = sample_num + 1
    /\ UNCHANGED attempt
    /\ UNCHANGED <<state, results, saved_state, device_info, args, start_response, reset_waiting, service, setv, safety_max_temp, error_events, calc, events, applied_settings,
                   ctl, plan, loopv, applyv, dev, final_applies, prev_trial,
                   trial_written>>

\* "await asyncio.sleep(sample_interval)"
SampleSleep ==
    /\ pc = "sample_sleep"
    /\ sample_num' = sample_num + 1
    /\ pc' = "iter"
    /\ UNCHANGED <<hash_rates, attempt>>
    /\ UNCHANGED <<state, results, saved_state, device_info, args, start_response, reset_waiting, service, setv, safety_max_temp, error_events, calc, events, applied_settings,
                   ctl, plan, loopv, applyv, dev, obs>>

(***************************************************************************)
(* run(): the branch on the iteration's result                             *)
(***************************************************************************)
\* no error, within tolerance: record, raise the frequency, continue
DecideWithin ==
    /\ pc = "decide"
    /\ result.error_reason = NoError
    /\ result.hashrate_within_tolerance
    /\ results' = Append(results, result)
    /\ events' = [events EXCEPT !.iteration_complete =
                          Append(@, IterationComplete(result, iteration_num))]
    /\ freq' = NextFrequency(freq, f_inc)
    /\ last_trial' = [last_trial EXCEPT !.outcome = "OK_WITHIN"]
    /\ result' = NoResult
    /\ pc' = "inner"
    /\ UNCHANGED <<v_step, iteration_num, abort_all>>
    /\ UNCHANGED <<state, saved_state, device_info, args, start_response, reset_waiting, service, setv, safety_max_temp, error_events, calc, applied_settings,
                   ctl, plan, applyv, iterv, dev, final_applies, prev_trial,
                   trial_written>>

\* faulty variant: the iteration-complete event of a recorded result that is
\* out of tolerance is not emitted
DecideBelow_NoEvent ==
    /\ pc = "decide"
    /\ result.error_reason = NoError
    /\ ~result.hashrate_within_tolerance
    /\ results' = Append(results, result)
    /\ events' = events
    /\ last_trial' = [last_trial EXCEPT !.outcome = "OK_BELOW"]
    /\ v_step' = v_step + 1
    /\ result' = NoResult
    /\ pc' = "outer"
    /\ UNCHANGED <<freq, iteration_num, abort_all>>
    /\ UNCHANGED <<state, saved_state, device_info, args, start_response, reset_waiting, service, setv, safety_max_temp, error_events, calc, applied_settings,
                   ctl, plan, applyv, iterv, dev, final_applies, prev_trial,
                   trial_written>>

\* no error, out of tolerance: record, next voltage
DecideBelow ==
    /\ pc = "decide"
    /\ result.error_reason = NoError
    /\ ~result.hashrate_within_tolerance
    /\ results' = Append(results, result)
    /\ events' = [events EXCEPT !.iteration_complete =
                          Append(@, IterationComplete(result, iteration_num))]
    /\ last_trial' = [last_trial EXCEPT !.outcome = "OK_BELOW"]
    /\ v_step' = v_step + 1
    /\ result' = NoResult
    /\ pc' = "outer"
    /\ UNCHANGED <<freq, iteration_num, abort_all>>
    /\ UNCHANGED <<state, saved_state, device_info, args, start_response, reset_waiting, service, setv, safety_max_temp, error_events, calc, applied_settings,
                   ctl, plan, applyv, iterv, dev, final_applies, prev_trial,
                   trial_written>>

\* CHIP_TEMP_EXCEEDED at the starting frequency: abort the whole sweep
DecideAbort ==
    /\ pc = "decide"
    /\ result.error_reason # NoError
    /\ IsThermalWall(result.error_reason, freq, initial_freq)
    /\ abort_all' = TRUE
    /\ last_trial' = [last_trial EXCEPT !.outcome = result.error_reason]
    /\ result' = NoResult
    /\ pc' = "final"
    /\ UNCHANGED <<v_step, freq, iteration_num>>
    /\ UNCHANGED <<state, results, saved_state, device_info, args, start_response, reset_waiting, service, setv, safety_max_temp, error_events, calc, events, applied_settings,
                   ctl, plan, applyv, iterv, dev, final_applies, prev_trial,
                   trial_written>>

\* faulty variant: the failed trial is recorded all the same
DecideFailed_Records ==
    /\ pc = "decide"
    /\ result.error_reason # NoError
    /\ ~IsThermalWall(result.error_reason, freq, initial_freq)
    /\ results' = Append(results, result)
    /\ last_trial' = [last_trial EXCEPT !.outcome = result.error_reason]
    /\ v_step' = v_step + 1
    /\ result' = NoResult
    /\ pc' = "outer"
    /\ UNCHANGED <<freq, iteration_num, abort_all>>
    /\ UNCHANGED <<state, saved_state, device_info, args, start_response, reset_waiting, service, setv, safety_max_temp, error_events, calc, events, applied_settings,
                   ctl, plan, applyv, iterv, dev, final_applies, prev_trial,
                   trial_written>>

\* any other failure: discard the trial, next voltage
DecideFailed ==
    /\ pc = "decide"
    /\ result.error_reason # NoError
    /\ ~IsThermalWall(result.error_reason, freq, initial_freq)
    /\ last_trial' = [last_trial EXCEPT !.outcome = result.error_reason]
    /\ v_step' = v_step + 1
    /\ result' = NoResult
    /\ pc' = "outer"
    /\ UNCHANGED <<freq, iteration_num, abort_all>>
    /\ UNCHANGED <<state, results, saved_state, device_info, args, start_response, reset_waiting, service, setv, safety_max_temp, error_events, calc, events, applied_settings,
                   ctl, plan, applyv, iterv, dev, final_applies, prev_trial,
                   trial_written>>

(***************************************************************************)
(* run(): the final settings application                                   *)
(***************************************************************************)
\* "Apply best settings" / "Restore defaults": _apply_settings is called with
\* wait_for_stabilization=False and suspends in client.set_settings
FinalApply ==
    /\ pc = "final"
    /\ apply' = FinalTarget(results, device_info[1])
    /\ final_applies' = final_applies + 1
    /\ pc' = "set"
    /\ UNCHANGED <<state, results, saved_state, device_info, args, start_response, reset_waiting, service, setv, safety_max_temp, error_events, calc, events, applied_settings,
                   consecutive_failures, stab_elapsed, ctl, plan, loopv, iterv, dev,
                   last_trial, prev_trial, trial_written>>

Next ==
    \/ request_stop
    \/ request_pause
    \/ resume
    \/ RunStart
    \/ StartRejected
    \/ FetchFails
    \/ FetchThenInvalid
    \/ FetchThenPlan
    \/ OuterDone
    \/ OuterPause
    \/ OuterEnter
    \/ WaitOuterStopped
    \/ WaitOuterResumed
    \/ InnerDone
    \/ InnerPause
    \/ InnerTrial
    \/ WaitInnerStopped
    \/ WaitInnerResumed
    \/ SetSettingsOk
    \/ SetSettingsFails
    \/ RestartOkNoWait
    \/ RestartOkWait
    \/ RestartFails
    \/ StabElapsed
    \/ StabCancelled
    \/ StabPoll
    \/ StabInfoFails
    \/ StabInfoOk
    \/ StabSleep
    \/ IterEnds
    \/ IterSample
    \/ SampleReadFails
    \/ SampleReadRaises
    \/ SampleRejected
    \/ SampleAccepted
    \/ SampleSleep
    \/ DecideWithin
    \/ DecideBelow
    \/ DecideAbort
    \/ DecideFailed
    \/ FinalApply

Spec == Init /\ [][Next]_vars

(***************************************************************************)
(* The reset endpoint (web/app.py, reset_benchmark)                        *)
(***************************************************************************)
\* BenchmarkRunner.reset, followed by "current_task = None" of the endpoint
reset ==
    /\ stop_requested' = FALSE
    /\ pause_requested' = FALSE
    /\ results' = <<>>
    /\ saved_state' = None
    /\ device_info' = None
    /\ resume_event' = TRUE
    /\ state' = IDLE
    /\ events' = [iteration_complete |-> <<>>, status |-> StatusEvent(IDLE, 0)]
    /\ pc' = "idle"
    /\ reset_waiting' = FALSE
    /\ service' = [service EXCEPT !.stop_accepted = FALSE]
    /\ UNCHANGED <<setv, safety_max_temp>>
    /\ error_events' = 0
    /\ UNCHANGED calc
    \* the frames of the task are gone, and so are the observations of the run
    /\ initial_volt' = 0 /\ initial_freq' = 0 /\ v_inc' = 0 /\ f_inc' = 0
    /\ sweep_max_f' = 0 /\ voltage_levels' = <<>> /\ quick' = FALSE
    /\ v_step' = 0 /\ freq' = 0 /\ iteration_num' = 0 /\ abort_all' = FALSE
    /\ result' = NoResult /\ applied_settings' = None
    /\ apply' = NoApply /\ consecutive_failures' = 0 /\ stab_elapsed' = 0
    /\ sample_num' = 0 /\ hash_rates' = <<>> /\ attempt' = 0
    /\ final_applies' = 0 /\ last_trial' = NoTrial /\ prev_trial' = NoTrial
    /\ trial_written' = FALSE
    /\ UNCHANGED <<args, start_response, dev>>

\* no task is running: the runner is reset at once
ResetIdle ==
    /\ ~TaskActive(current_task)
    /\ ~reset_waiting
    /\ reset

\* a task is running: request_stop, then "await asyncio.wait_for(current_task,
\* timeout=5.0)"
ResetBegin ==
    /\ Suspended
    /\ TaskActive(current_task)
    /\ ~reset_waiting
    /\ stop_requested' = TRUE
    /\ pause_requested' = FALSE
    /\ resume_event' = TRUE
    /\ reset_waiting' = TRUE
    /\ last_trial' = IF pc \in StabPcs THEN [last_trial EXCEPT !.cancelled = TRUE]
                     ELSE last_trial
    /\ UNCHANGED <<state, results, saved_state, device_info, args, start_response,
                   service, setv, safety_max_temp, error_events, calc, events, pc,
                   applied_settings, plan, loopv, applyv, iterv, dev, final_applies,
                   prev_trial, trial_written>>

\* the task ended within the 5 seconds
ResetTaskDone ==
    /\ reset_waiting
    /\ pc = "done"
    /\ reset

\* the 5 seconds elapsed first: wait_for cancels the task, which is abandoned
\* at the device operation or sleep it is suspended in (CancelledError is not
\* an Exception, no handler of run catches it), and the runner is reset.  A
\* task parked at the gate is not cancelled there: request_stop has opened the
\* gate, so the task runs on before any time passes.
ResetTimeout ==
    /\ reset_waiting
    /\ Suspended
    /\ TaskActive(current_task)
    /\ pc \notin {"wait_outer", "wait_inner"}
    /\ reset

NextReset ==
    \/ Next
    \/ ResetIdle
    \/ ResetBegin
    \/ ResetTaskDone
    \/ ResetTimeout

\* the service with its reset endpoint
ResetSpec == Init /\ [][NextReset]_vars

(***************************************************************************)
(* The configuration endpoints.  PUT and PATCH /api/config replace the     *)
(* configuration and set the global runner to None; the next get_runner()  *)
(* builds a new BenchmarkRunner while current_task keeps executing run()   *)
(* of the old one.                                                         *)
(***************************************************************************)
\* update_config / patch_config with a valid configuration, during a run
update_config ==
    /\ Suspended
    /\ TaskActive(current_task)
    /\ service.runner = "task"
    /\ service' = [service EXCEPT !.runner = "replaced"]
    /\ UNCHANGED <<state, results, saved_state, device_info, args, start_response, reset_waiting, setv, safety_max_temp, error_events, calc, events, pc, applied_settings,
                   ctl, plan, loopv, applyv, iterv, dev, obs>>

\* stop_benchmark after the configuration was updated during the task:
\* get_runner() returns a runner that is not the one executing the task, the
\* task is not done, request_stop is called on that runner and the request is
\* answered "stop_requested"
stop_benchmark ==
    /\ Suspended
    /\ service.runner # "task"
    /\ TaskActive(current_task)
    /\ service' = [runner |-> "replaced", stop_accepted |-> TRUE]
    /\ UNCHANGED <<state, results, saved_state, device_info, args, start_response, reset_waiting, setv, safety_max_temp, error_events, calc, events, pc, applied_settings,
                   ctl, plan, loopv, applyv, iterv, dev, obs>>

NextConfig ==
    \/ Next
    \/ update_config
    \/ stop_benchmark

\* the service with its configuration endpoints
ConfigSpec == Init /\ [][NextConfig]_vars

(***************************************************************************)
(* set_values: POST /api/set-values applies one validated pair outside a   *)
(* run.  The endpoint refuses while the task of a run is not done; the     *)
(* call itself is awaited in the request handler and is no task that       *)
(* start_benchmark knows of.  It runs _apply_settings with the             *)
(* stabilization wait on the same runner: the same flags, the same client  *)
(* attribute.  Each action goes from one await of the call to the next.    *)
(***************************************************************************)
\* set_values returns: True ("ok") or False (HTTP 500), with what ended it
SetValuesReturns(ok, why) ==
    [pc |-> "idle", consecutive_failures |-> 0, stab_elapsed |-> 0,
     response |-> IF ok THEN "ok" ELSE "failed", cause |-> why]

\* head of the stabilization loop of the call, with `elapsed` sleeps done
SetValuesLoopHead(cf, elapsed) ==
    IF elapsed >= StabPolls THEN SetValuesReturns(TRUE, "none")
    ELSE IF StabilizationCancelled(stop_requested) THEN SetValuesReturns(FALSE, "stop")
    ELSE [pc |-> "stab_info", consecutive_failures |-> cf, stab_elapsed |-> elapsed,
          response |-> "pending", cause |-> "none"]

\* the endpoint while the task of a run is not done: HTTP 409
SetValuesRejected ==
    /\ Suspended
    /\ TaskActive(current_task)
    /\ setv.pc = "idle"
    /\ setv' = [setv EXCEPT !.response = "conflict", !.cause = "none"]
    /\ UNCHANGED <<state, results, saved_state, device_info, args, start_response, reset_waiting, service, safety_max_temp, error_events, calc, events, pc, applied_settings,
                   ctl, plan, loopv, applyv, iterv, dev, obs>>

\* the endpoint with no task running: the values pass validation and
\* set_values suspends in client.set_settings
SetValuesStart ==
    /\ ~TaskActive(current_task)
    /\ setv.pc = "idle"
    /\ setv' = [pc |-> "set", consecutive_failures |-> 0, stab_elapsed |-> 0,
                response |-> "pending", cause |-> "none"]
    /\ UNCHANGED <<state, results, saved_state, device_info, args, start_response, reset_waiting, service, safety_max_temp, error_events, calc, events, pc, applied_settings,
                   ctl, plan, loopv, applyv, iterv, dev, obs>>

\* client.set_settings returns: the pair is on the device, or the call fails
SetValuesWrite ==
    /\ Suspended
    /\ setv.pc = "set"
    /\ \E ok \in BOOLEAN :
          IF ok
          THEN /\ dev_voltage' = DeviceDefaultVoltage
               /\ dev_frequency' = DeviceDefaultFrequency
               /\ setv' = [setv EXCEPT !.pc = "restart"]
          ELSE /\ setv' = SetValuesReturns(FALSE, "write")
               /\ UNCHANGED dev
    /\ UNCHANGED <<state, results, saved_state, device_info, args, start_response, reset_waiting, service, safety_max_temp, error_events, calc, events, pc, applied_settings,
                   ctl, plan, loopv, applyv, iterv,  obs>>

\* client.restart returns: the stabilization wait begins, or the call fails
SetValuesRestart ==
    /\ Suspended
    /\ setv.pc = "restart"
    /\ \E ok \in BOOLEAN :
          setv' = IF ok THEN SetValuesLoopHead(0, 0)
                  ELSE SetValuesReturns(FALSE, "restart")
    /\ UNCHANGED <<state, results, saved_state, device_info, args, start_response, reset_waiting, service, safety_max_temp, error_events, calc, events, pc, applied_settings,
                   ctl, plan, loopv, applyv, iterv, dev, obs>>

\* the poll of the stabilization wait returns: nothing (a strike, the third
\* in a row fails the call), or a reading that is checked against the ceilings
SetValuesPoll ==
    /\ Suspended
    /\ setv.pc = "stab_info"
    /\ \E info \in {None} \cup {Some(r) : r \in Readings} :
          setv' = IF info = None
                  THEN IF setv.consecutive_failures + 1 >= MaxConsecutiveFailures
                       THEN SetValuesReturns(FALSE, "reads")
                       ELSE [setv EXCEPT !.pc = "stab_sleep",
                                         !.consecutive_failures = @ + 1]
                  ELSE IF StabilizationBreach(info[1])
                       THEN SetValuesReturns(FALSE, "breach")
                       ELSE [setv EXCEPT !.pc = "stab_sleep",
                                         !.consecutive_failures = 0]
    /\ UNCHANGED <<state, results, saved_state, device_info, args, start_response, reset_waiting, service, safety_max_temp, error_events, calc, events, pc, applied_settings,
                   ctl, plan, loopv, applyv, iterv, dev, obs>>

\* "await asyncio.sleep(5)" of the wait returns: the loop head is evaluated
SetValuesSleep ==
    /\ Suspended
    /\ setv.pc = "stab_sleep"
    /\ setv' = SetValuesLoopHead(setv.consecutive_failures, setv.stab_elapsed + 1)
    /\ UNCHANGED <<state, results, saved_state, device_info, args, start_response, reset_waiting, service, safety_max_temp, error_events, calc, events, pc, applied_settings,
                   ctl, plan, loopv, applyv, iterv, dev, obs>>

NextSetValues ==
    \/ Next
    \/ SetValuesRejected
    \/ SetValuesStart
    \/ SetValuesWrite
    \/ SetValuesRestart
    \/ SetValuesPoll
    \/ SetValuesSleep

\* the service with its set-values endpoint
SetValuesSpec == Init /\ [][NextSetValues]_vars

NextOverride ==
    \/ Next
    \/ RunStartOverride

\* the service with start requests that carry a temperature override
OverrideSpec == Init /\ [][NextOverride]_vars

(***************************************************************************)
(* Listeners.  The runner calls its callbacks synchronously and unguarded  *)
(* (on_iteration_complete at the end of an error-free trial); the service's *)
(* callback broadcasts asynchronously but also saves the summary file       *)
(* before it returns.                                                       *)
(***************************************************************************)
\* the listener raises: the exception propagates into run, whose handler
\* reports it and ends the run in ERROR
IterationListenerRaises ==
    /\ pc = "decide"
    /\ result.error_reason = NoError
    /\ results' = Append(results, result)
    /\ last_trial' = [last_trial EXCEPT !.outcome =
                          IF result.hashrate_within_tolerance THEN "OK_WITHIN" ELSE "OK_BELOW"]
    /\ error_events' = error_events + 1
    /\ UNCHANGED calc
    /\ state' = ERROR
    /\ events' = [iteration_complete |-> Append(events.iteration_complete, IterationComplete(result, iteration_num)),
                    status |-> StatusEvent(ERROR, Len(results'))]
    /\ result' = NoResult
    /\ pc' = "done"
    /\ UNCHANGED <<v_step, freq, iteration_num, abort_all>>
    /\ UNCHANGED <<saved_state, device_info, args, start_response, reset_waiting, service, setv, safety_max_temp, applied_settings,
                   ctl, plan, applyv, iterv, dev, final_applies, prev_trial,
                   trial_written>>

\* the listener never returns: run never gets control back (and neither does
\* any other task of the event loop)
IterationListenerBlocks ==
    /\ pc = "decide"
    /\ result.error_reason = NoError
    /\ results' = Append(results, result)
    /\ events' = [events EXCEPT !.iteration_complete =
                          Append(@, IterationComplete(result, iteration_num))]
    /\ last_trial' = [last_trial EXCEPT !.outcome =
                          IF result.hashrate_within_tolerance THEN "OK_WITHIN" ELSE "OK_BELOW"]
    /\ pc' = "blocked"
    /\ UNCHANGED <<v_step, freq, iteration_num, abort_all, result>>
    /\ UNCHANGED <<state, saved_state, device_info, args, start_response, reset_waiting, service, setv, safety_max_temp, error_events, calc, applied_settings,
                   ctl, plan, applyv, iterv, dev, final_applies, prev_trial,
                   trial_written>>

NextObserved ==
    \/ Next
    \/ IterationListenerRaises
    \/ IterationListenerBlocks

\* the runner with a listener that may fail
ObserverSpec == Init /\ [][NextObserved]_vars

\* The steps of the run task that the event loop takes once the awaited
\* operation returns: all of them but the call of run() itself.
RunTask ==
    \/ FetchFails \/ FetchThenInvalid \/ FetchThenPlan
    \/ OuterDone \/ OuterPause \/ OuterEnter \/ WaitOuterStopped \/ WaitOuterResumed
    \/ InnerDone \/ InnerPause \/ InnerTrial \/ WaitInnerStopped \/ WaitInnerResumed
    \/ SetSettingsOk \/ SetSettingsFails \/ RestartOkNoWait \/ RestartOkWait
    \/ RestartFails \/ StabElapsed \/ StabCancelled \/ StabPoll \/ StabInfoFails
    \/ StabInfoOk \/ StabSleep \/ IterEnds \/ IterSample \/ SampleReadFails
    \/ SampleReadRaises \/ SampleRejected \/ SampleAccepted \/ SampleSleep
    \/ DecideWithin \/ DecideBelow \/ DecideAbort \/ DecideFailed \/ FinalApply

\* Every device operation and every sleep returns, and a task that can run is
\* run: the run task is not suspended forever while one of its steps is
\* possible.  The gate of _check_pause opens only by resume or request_stop.
FairSpec == Spec /\ WF_vars(RunTask)

(***************************************************************************)
(* The pure computations of the runner, evaluated on their own: each step  *)
(* draws the arguments and records them with the value computed.           *)
(***************************************************************************)
\* the accepted samples of one iteration (at least one: with none the
\* iteration has returned NO_DATA_COLLECTED before)
SampleLists == UNION {[1..n -> HashRates] : n \in 1..MaxSamples}

\* "Trim outliers" of _run_iteration for a configured analysis.trim_outliers
CalcTrimmedHashrates ==
    /\ \E hs \in SampleLists, trim \in 0..MaxTrim :
          calc' = [op |-> "trimmed_hashrates",
                   input |-> [hash_rates |-> hs, trim_outliers |-> trim],
                   output |-> TrimmedHashrates(Sorted(hs), trim)]
    /\ UNCHANGED <<state, results, saved_state, device_info, args, start_response, reset_waiting, service, setv, safety_max_temp,
                   error_events, events, pc, applied_settings,
                   ctl, plan, loopv, applyv, iterv, dev, obs>>

\* the averages the evaluations draw, as sum and count of the trimmed samples
CalcHashrateSums == {939, 940, 941, 1880}
CalcHashrateCounts == {1, 2}
CalcFrequencies == {500, 1000}
CalcCoreCounts == {1000, 2000}
CalcAsicCounts == {1, 2}

\* expected_hashrate and hashrate_within_tolerance of _run_iteration
CalcWithinTolerance ==
    /\ \E hsum \in CalcHashrateSums, hcount \in CalcHashrateCounts, f \in CalcFrequencies,
          scc \in CalcCoreCounts, ac \in CalcAsicCounts, d \in DeviceInfos :
          calc' = [op |-> "within_tolerance",
                   input |-> [hr_sum |-> hsum, hr_count |-> hcount, frequency |-> f,
                              small_core_count |-> scc, asic_count |-> ac],
                   output |-> WithinTolerance(hsum, hcount, f,
                                  [d EXCEPT !.small_core_count = scc, !.asic_count = ac])]
    /\ UNCHANGED <<state, results, saved_state, device_info, args, start_response, reset_waiting, service, setv, safety_max_temp,
                   error_events, events, pc, applied_settings,
                   ctl, plan, loopv, applyv, iterv, dev, obs>>

\* the results a sweep may end with, for the evaluation of the refine range
CalcResultVoltages == {1000, 1200, 1400}
CalcResultFrequencies == {400, 600, 1200}
CalcResults ==
    {MkResult(v, f, h, 1, TRUE, NoError) :
        v \in CalcResultVoltages, f \in CalcResultFrequencies, h \in HashRates}
CalcResultLists == UNION {[1..n -> CalcResults] : n \in 0..2}

\* the refine range at the end of a sweep with the given results
CalcRefineRange ==
    /\ \E q \in BOOLEAN, rs \in CalcResultLists :
          calc' = [op |-> "refine_range",
                   input |-> [quick |-> q, results |-> rs],
                   output |-> refine_range(q, rs,
                                  EffectiveIncrement(voltage_increment, q),
                                  EffectiveIncrement(frequency_increment, q))]
    /\ UNCHANGED <<state, results, saved_state, device_info, args, start_response, reset_waiting, service, setv, safety_max_temp,
                   error_events, events, pc, applied_settings,
                   ctl, plan, loopv, applyv, iterv, dev, obs>>

\* starting voltages and caller-supplied ceilings (None: not supplied) of the
\* evaluations of the voltage ladder
CalcStartVoltages == {1340, 1370, 1400}
CalcMaxVoltageArgs == {None, Some(0), Some(1300), Some(1385), Some(1400), Some(1500)}

\* "Sweep limits" and "Build voltage level list" of run for a valid start;
\* to "max_voltage or ..." an argument of None and one of 0 are the same
CalcVoltageLevels ==
    /\ \E iv \in CalcStartVoltages, mv \in CalcMaxVoltageArgs, q \in BOOLEAN :
          calc' = [op |-> "voltage_levels",
                   input |-> [initial_volt |-> iv, max_voltage |-> mv, quick |-> q],
                   output |-> VoltageLevels(iv,
                                  SweepMax(IF mv = None THEN NoArg ELSE mv[1],
                                           max_allowed_voltage),
                                  EffectiveIncrement(voltage_increment, q))]
    /\ UNCHANGED <<state, results, saved_state, device_info, args, start_response, reset_waiting, service, setv, safety_max_temp,
                   error_events, events, pc, applied_settings,
                   ctl, plan, loopv, applyv, iterv, dev, obs>>

\* one telemetry read of the sampler and its verdict: the read gives nothing
\* (None), or a reading whose fields are numbers or missing
CalcCheckSample ==
    /\ \E info \in {None} \cup
              {Some([temp |-> t, vrTemp |-> vr, voltage |-> iv, hashRate |-> h, power |-> p]) :
                  t \in {Absent, 4, 5, 60, max_temp},
                  vr \in {Absent, 70, max_vr_temp},
                  iv \in {Absent, min_input_voltage - 1, min_input_voltage, max_input_voltage + 1},
                  h \in {Absent, 1000},
                  p \in {Absent, 20, max_power, max_power + 1}} :
          calc' = [op |-> "check_sample",
                   input |-> info,
                   output |-> IF info = None THEN "SYSTEM_INFO_FAILURE"
                              ELSE CheckSample(info[1])]
    /\ UNCHANGED <<state, results, saved_state, device_info, args, start_response, reset_waiting, service, setv, safety_max_temp,
                   error_events, events, pc, applied_settings,
                   ctl, plan, loopv, applyv, iterv, dev, obs>>

\* "freq += f_inc" after a trial within tolerance, for the frequency
\* increments IncrementsConfig accepts (any integer: the field has no
\* constraint and validate_benchmark_params does not look at it)
CalcNextFrequency ==
    /\ \E inc \in {0 - frequency_increment, 0, frequency_increment}, q \in BOOLEAN,
          f \in {DeviceDefaultFrequency, max_allowed_frequency} :
          calc' = [op |-> "next_frequency",
                   input |-> [frequency_increment |-> inc, quick |-> q, freq |-> f],
                   output |-> NextFrequency(f, EffectiveIncrement(inc, q))]
    /\ UNCHANGED <<state, results, saved_state, device_info, args, start_response, reset_waiting, service, setv, safety_max_temp,
                   error_events, events, pc, applied_settings,
                   ctl, plan, loopv, applyv, iterv, dev, obs>>

CalcNext ==
    \/ CalcTrimmedHashrates
    \/ CalcWithinTolerance
    \/ CalcRefineRange
    \/ CalcVoltageLevels
    \/ CalcCheckSample
    \/ CalcNextFrequency

CalcSpec == Init /\ [][CalcNext]_vars

(***************************************************************************)
(* Properties                                                              *)
(***************************************************************************)
\* a step that starts a trial: _apply_settings is called for a new candidate
TrialStarts == pc # "set" /\ pc' = "set" /\ apply'.caller = "trial"

\* a step that issues a settings write (client.set_settings is called)
WriteIssued == pc' = "set" /\ pc # "set"

\* the sweep of the current run was entered (the ladder was built)
SweepEntered == voltage_levels # <<>>

\* the run has returned
RunEnded == pc = "done" /\ state \in {COMPLETED, ERROR}

\* the BenchmarkComplete that run has returned: the one built at the end of
\* the sweep, or the one of the exception handlers (results only)
completion ==
    IF state = COMPLETED
    THEN [all_results |-> results, applied_settings |-> applied_settings,
          refine_range |-> refine_range(quick, results, v_inc, f_inc)]
    ELSE [all_results |-> results, applied_settings |-> None, refine_range |-> None]

DefaultPair == <<DeviceDefaultVoltage, DeviceDefaultFrequency>>
DevicePair == <<dev_voltage, dev_frequency>>

\* r is a recorded result that no recorded result exceeds in average hashrate
IsMaxHashrate(r) ==
    /\ \E i \in 1..Len(results) : results[i] = r
    /\ \A j \in 1..Len(results) : ~HashrateGreater(results[j], r)

\* C1: on every exit path of run() that follows the start of the sweep
\* (completion, stop, stop while paused, unexpected exception) the final
\* settings application has been executed exactly once when run returns.
C1_FinalApplyOnEveryExit ==
    (RunEnded /\ SweepEntered) => final_applies = 1

\* C2: when a run in which a trial candidate was written to the device ends
\* (COMPLETED or ERROR), the pair last written to the device is that of the
\* best-by-hashrate recorded result or the device's default pair.
C2_DeviceEndsAtBestOrDefault ==
    (RunEnded /\ trial_written) =>
        \/ DevicePair = DefaultPair
        \/ \E i \in 1..Len(results) :
              /\ IsMaxHashrate(results[i])
              /\ DevicePair = <<results[i].core_voltage, results[i].frequency>>

\* C3: while the final settings application is in progress, the pair it
\* writes is the device's default pair if no result was recorded and the pair
\* of a result of maximum average hashrate otherwise, it is applied with
\* wait_for_stabilization = False, and it only ever writes and restarts: it
\* never enters the stabilization wait.
C3_FinalApplyTarget ==
    apply.caller = "final" =>
        /\ pc \in {"set", "restart"}
        /\ ~apply.wait_for_stabilization
        /\ results = <<>> => <<apply.voltage, apply.frequency>> = DefaultPair
        /\ results # <<>> =>
              \E i \in 1..Len(results) :
                  /\ IsMaxHashrate(results[i])
                  /\ apply.voltage = results[i].core_voltage
                  /\ apply.frequency = results[i].frequency

\* C3 witness: the final application has written the pair of the best result,
\* which is not the last one recorded, and is about to restart the device
C3_Witness ==
    /\ apply.caller = "final"
    /\ pc = "restart"
    /\ Len(results) >= 2
    /\ HashrateGreater(results[1], results[Len(results)])
    /\ DevicePair = <<results[1].core_voltage, results[1].frequency>>

\* a trial at the starting frequency ended with CHIP_TEMP_EXCEEDED
ThermalWallHit ==
    last_trial.outcome = "CHIP_TEMP_EXCEEDED" /\ last_trial.frequency = initial_freq

\* C4: when the iteration of a trial at the starting frequency returns
\* CHIP_TEMP_EXCEEDED, the controller's next step is the final settings
\* application, and from then on the run starts no trial, whatever the
\* ladder's length and the trial's position in it.
C4_ThermalWallAbortsSweep ==
    [][ /\ (pc = "decide" /\ result.error_reason = "CHIP_TEMP_EXCEEDED"
              /\ freq = initial_freq /\ pc' # pc) => pc' = "final"
        /\ ThermalWallHit => ~TrialStarts ]_vars

\* C4 witness: the run ended after a thermal wall at the first of several
\* voltage levels
C4_Witness ==
    /\ ThermalWallHit
    /\ last_trial.step = 1
    /\ Len(voltage_levels) > 1
    /\ pc = "done"
    /\ final_applies = 1

\* C5: CHIP_TEMP_EXCEEDED at a frequency above the starting frequency does
\* not abort the sweep: the controller goes on to the next voltage level with
\* abort_all still false, and the trial that follows it is at (next ladder
\* voltage, starting frequency).
C5_OverheatAboveStartEndsLevelOnly ==
    /\ (prev_trial.outcome = "CHIP_TEMP_EXCEEDED" /\ prev_trial.frequency > initial_freq) =>
          /\ last_trial.step = prev_trial.step + 1
          /\ last_trial.voltage = voltage_levels[prev_trial.step + 1]
          /\ last_trial.frequency = initial_freq
    /\ (last_trial.outcome = "CHIP_TEMP_EXCEEDED" /\ last_trial.frequency > initial_freq) =>
          /\ ~abort_all
          /\ v_step > last_trial.step

\* C5 witness: a trial above the starting frequency overheated and the next
\* trial was applied at the next voltage
C5_Witness ==
    /\ prev_trial.outcome = "CHIP_TEMP_EXCEEDED"
    /\ prev_trial.frequency > initial_freq
    /\ last_trial.step = prev_trial.step + 1
    /\ pc = "restart"
    /\ DevicePair = <<last_trial.voltage, initial_freq>>

\* C6: order of the trials.  After an error-free trial within tolerance the
\* next trial is (same voltage, frequency + f_inc) if that does not exceed the
\* frequency ceiling (and otherwise the next ladder voltage at the starting
\* frequency); after an error-free trial out of tolerance the result is
\* recorded and the next trial is (next ladder voltage, starting frequency);
\* the ladder position never decreases, and a trial at the same position has
\* a higher frequency.
C6_TrialOrder ==
    prev_trial.outcome # "none" =>
        /\ prev_trial.outcome = "OK_WITHIN" =>
              IF prev_trial.frequency + f_inc <= sweep_max_f
              THEN /\ last_trial.step = prev_trial.step
                   /\ last_trial.voltage = prev_trial.voltage
                   /\ last_trial.frequency = prev_trial.frequency + f_inc
              ELSE /\ last_trial.step = prev_trial.step + 1
                   /\ last_trial.frequency = initial_freq
        /\ prev_trial.outcome = "OK_BELOW" =>
              /\ last_trial.step = prev_trial.step + 1
              /\ last_trial.frequency = initial_freq
              /\ \E i \in 1..Len(results) :
                    /\ results[i].core_voltage = prev_trial.voltage
                    /\ results[i].frequency = prev_trial.frequency
                    /\ ~results[i].hashrate_within_tolerance
        /\ last_trial.voltage = voltage_levels[last_trial.step]
        /\ last_trial.step >= prev_trial.step
        /\ last_trial.step = prev_trial.step => last_trial.frequency > prev_trial.frequency
        /\ last_trial.step > prev_trial.step => last_trial.voltage > prev_trial.voltage

\* C6 witness: within tolerance at (v, f), out of tolerance at (v, f + f_inc),
\* then the trial at (next voltage, f)
C6_Witness ==
    /\ prev_trial.outcome = "OK_BELOW"
    /\ prev_trial.frequency = initial_freq + f_inc
    /\ Len(results) >= 2
    /\ last_trial.voltage = prev_trial.voltage + v_inc
    /\ last_trial.frequency = initial_freq
    /\ last_trial.outcome = "pending"

LastTrialRecorded ==
    \E i \in 1..Len(results) :
        /\ results[i].core_voltage = last_trial.voltage
        /\ results[i].frequency = last_trial.frequency

C9_StoppedRunCompletes ==
    [][ (stop_requested /\ pc # "done" /\ pc' = "done") => state' = COMPLETED ]_vars

\* C9 (amended): after a stop request no trial is started; the run ends, in
\* COMPLETED after exactly one final settings application, or in ERROR when
\* the operation in flight was the capability fetch, which failed or gave an
\* invalid start, or a telemetry read of the sampler, which raised.
C9_StopEndsRun ==
    /\ [][ /\ stop_requested => ~TrialStarts
           /\ (stop_requested /\ pc # "done" /\ pc' = "done") =>
                 \/ state' = COMPLETED /\ final_applies' = 1
                 \/ state' = ERROR /\ pc \in {"fetch", "sample"} ]_vars
    /\ ((stop_requested /\ pc \notin {"idle", "done"}) ~> pc = "done")

\* C9 witness: a stop was requested during a trial and the run completed
\* without visiting the remaining voltage level
C9_Witness ==
    /\ stop_requested
    /\ pc = "done"
    /\ state = COMPLETED
    /\ final_applies = 1
    /\ last_trial.outcome # "none"
    /\ last_trial.step < Len(voltage_levels)

\* C10: a stop while parked in PAUSED opens the gate, the state never goes
\* back to RUNNING or STABILIZING, no trial is started, and the run ends in
\* COMPLETED after one final settings application; a resume (with no stop)
\* opens the gate, the step out of PAUSED is then possible, and it leaves
\* PAUSED for RUNNING or STABILIZING and goes on with the trial at the parked
\* position.
C10_StopOrResumeWhilePaused ==
    /\ []((state = PAUSED /\ stop_requested) => resume_event)
    /\ [][ /\ (state = PAUSED /\ stop_requested) =>
                 (state' \in {PAUSED, COMPLETED} /\ ~TrialStarts)
           /\ (state = PAUSED /\ state' = COMPLETED) => final_applies' = 1
           /\ (state = PAUSED /\ ~stop_requested /\ state' # PAUSED) =>
                 /\ resume_event /\ ~pause_requested
                 /\ pc = "wait_inner" =>
                       /\ state' = STABILIZING /\ TrialStarts
                       /\ last_trial'.step = v_step /\ last_trial'.frequency = freq
                 /\ pc = "wait_outer" =>
                       /\ state' = RUNNING /\ pc' = "inner"
                       /\ freq' = initial_freq /\ initial_freq <= sweep_max_f ]_vars
    /\ []((state = PAUSED /\ resume_event /\ ~stop_requested) =>
            ENABLED <<WaitInnerResumed \/ WaitOuterResumed>>_vars)
    /\ ((state = PAUSED /\ stop_requested) ~> (state = COMPLETED /\ final_applies = 1))

\* C10 witness: stopped while parked, the run completed with the results it
\* had and the level it was parked at was never tried
C10_Witness ==
    /\ pc = "done"
    /\ state = COMPLETED
    /\ stop_requested
    /\ final_applies = 1
    /\ results # <<>>
    /\ last_trial.outcome = "OK_BELOW"
    /\ v_step = last_trial.step + 1
    /\ v_step <= Len(voltage_levels)

\* everything but the response to the last start request
run_vars == <<state, results, saved_state, device_info, args, pc, applied_settings,
              ctl, plan, loopv, applyv, iterv, dev, obs>>

\* run() has been called and has not returned
RunActive == pc \notin {"idle", "done"}

\* C11: at most one run is active.  A start request that arrives while the
\* task of a run is not done (a paused run included) is answered with a
\* conflict and changes nothing of the active run, its results, its flags or
\* the device; run() is entered only when no run is active, so the device
\* operations of two runs never interleave.
C11_SingleActiveRun ==
    /\ [](state \in {INITIALIZING, STABILIZING, RUNNING, PAUSED} => RunActive)
    /\ [][ /\ (start_response' = "conflict" /\ start_response # "conflict") =>
                 (RunActive /\ UNCHANGED run_vars)
           /\ (RunActive /\ start_response' # start_response) =>
                 (start_response' = "conflict" /\ UNCHANGED run_vars)
           /\ (state' = INITIALIZING /\ pc' = "fetch" /\ (pc # "fetch" \/ args' # args)) =>
                 (~RunActive /\ start_response' = "started")
           /\ (RunActive /\ iteration_num' < iteration_num) => FALSE
           /\ (RunActive /\ results' # results) =>
                 (Len(results') = Len(results) + 1 /\ SubSeq(results', 1, Len(results)) = results)
         ]_vars

\* C11 witness: a start request was refused while the run was parked in
\* PAUSED with results recorded
C11_Witness ==
    /\ start_response = "conflict"
    /\ state = PAUSED
    /\ pc = "wait_inner"
    /\ results # <<>>
    /\ ~stop_requested

can_resume == saved_state # None /\ state = PAUSED

\* C13: the resume snapshot is present exactly when the run can be resumed,
\* and it is absent whenever the state is COMPLETED or ERROR.
C13_SnapshotIsCanResume ==
    /\ saved_state # None <=> can_resume
    /\ state \in {COMPLETED, ERROR} => saved_state = None

\* the caller gave a starting voltage or frequency outside the configured
\* bounds
ExplicitStartOutOfRange ==
    \/ /\ args.initial_voltage # NoArg
       /\ (args.initial_voltage < min_allowed_voltage
             \/ args.initial_voltage > max_allowed_voltage)
    \/ /\ args.initial_frequency # NoArg
       /\ (args.initial_frequency < min_allowed_frequency
             \/ args.initial_frequency > max_allowed_frequency)

\* C14: a run whose starting values are out of bounds is rejected before any
\* device interaction: when it has ended, the state is ERROR, the result list
\* is empty, no trial was started or written, and the device was never asked
\* (no capabilities were fetched from it).
C14_InvalidStartRejectedBeforeDevice ==
    (RunEnded /\ ExplicitStartOutOfRange) =>
        /\ state = ERROR
        /\ results = <<>>
        /\ last_trial = NoTrial
        /\ ~trial_written
        /\ device_info = None

\* C15: a run that ends at the capability fetch ends in ERROR with an empty
\* result list and exactly one error event, and it has issued no settings
\* write and no restart: the device is as it was, no trial and no final
\* application was started.
C15_FetchFailureEndsInError ==
    [][(pc = "fetch" /\ pc' = "done") =>
          /\ state' = ERROR
          /\ results' = <<>>
          /\ error_events' = 1
          /\ dev' = dev
          /\ applied_settings' = None
          /\ final_applies' = 0
          /\ last_trial' = NoTrial
          /\ ~trial_written']_vars

\* a run has ended at a failed capability fetch (no capabilities are known)
C15_Witness ==
    /\ pc = "done"
    /\ state = ERROR
    /\ device_info = None
    /\ error_events = 1
    /\ results = <<>>

\* C16: a listener cannot stall or alter the sweep: whatever the listener of
\* the iteration-complete event does, the step the controller takes after an
\* error-free trial is the step it takes with no listener (record the
\* result, then go on to the next frequency or the next voltage).
C16_ObserverCannotAlterSweep ==
    [][(pc = "decide" /\ result.error_reason = NoError) =>
          (DecideWithin \/ DecideBelow)]_vars

\* C17: the hash rates averaged are exactly n - 2t of the n samples when
\* n > 2t and all n otherwise, for every trim count t >= 0, and they are
\* never empty.
C17_TrimmedCount ==
    calc.op = "trimmed_hashrates" =>
        LET n == Len(calc.input.hash_rates)
            t == calc.input.trim_outliers
        IN /\ Len(calc.output) = IF n > 2 * t THEN n - 2 * t ELSE n
           /\ calc.output # <<>>

\* C18: a trial is within tolerance exactly when its average hash rate is at
\* least the expected hash rate times the tolerance, the expected hash rate
\* being frequency * (small_core_count * asic_count) / 1000; an average equal
\* to that threshold is within tolerance.
C18_WithinToleranceThreshold ==
    calc.op = "within_tolerance" =>
        LET i == calc.input
            \* average * 1000 * 100 and expected * tolerance * 1000 * 100, both
            \* multiplied by the number of samples
            average_scaled == i.hr_sum * 1000 * 100
            threshold_scaled == (i.frequency * (i.small_core_count * i.asic_count))
                                    * hashrate_tolerance_pct * i.hr_count
        IN /\ calc.output <=> average_scaled >= threshold_scaled
           /\ average_scaled = threshold_scaled => calc.output

\* an average exactly at the threshold was evaluated, and is within tolerance
C18_Witness ==
    /\ calc.op = "within_tolerance"
    /\ calc.input.hr_sum * 1000 * 100 =
           calc.input.frequency * calc.input.small_core_count * calc.input.asic_count
               * hashrate_tolerance_pct * calc.input.hr_count
    /\ calc.output

\* C19: the completion of a run reports a refine range exactly when the run
\* was in quick mode and recorded at least one result, and the range is the
\* best result by hash rate plus and minus the effective increments, clamped
\* to the configured bounds.
C19_RefineRangeReported ==
    RunEnded =>
        /\ completion.refine_range # None <=> (args.mode = QUICK /\ results # <<>>)
        /\ completion.refine_range # None =>
              LET best == BestByHashrate(results)
                  rr == completion.refine_range[1]
              IN /\ rr.voltage_min =
                       Max2(best.core_voltage - QuickFactor * voltage_increment, min_allowed_voltage)
                 /\ rr.voltage_max =
                       Min2(best.core_voltage + QuickFactor * voltage_increment, max_allowed_voltage)
                 /\ rr.frequency_min =
                       Max2(best.frequency - QuickFactor * frequency_increment, min_allowed_frequency)
                 /\ rr.frequency_max =
                       Min2(best.frequency + QuickFactor * frequency_increment, max_allowed_frequency)

\* C20: the voltage ladder is the ascending sequence start, start + s,
\* start + 2s, ... of all values not above min(caller-supplied ceiling, global
\* ceiling), s being the voltage increment times 4 in quick mode and times 1
\* in full mode; when no value qualifies the ladder is exactly <<start>>.
C20_VoltageLadder ==
    calc.op = "voltage_levels" =>
        LET start == calc.input.initial_volt
            s == voltage_increment * (IF calc.input.quick THEN 4 ELSE 1)
            ceiling == IF calc.input.max_voltage = None THEN max_allowed_voltage
                       ELSE Min2(calc.input.max_voltage[1], max_allowed_voltage)
            qualifying == {k \in 0..(max_allowed_voltage - min_allowed_voltage) :
                              start + k * s <= ceiling}
        IN  calc.output = IF qualifying = {} THEN <<start>>
                          ELSE [i \in 1..Cardinality(qualifying) |-> start + (i - 1) * s]

\* the step run takes on the result of an iteration that ended with an error
FailedTrialDecided == pc = "decide" /\ result.error_reason # NoError /\ pc' # pc

\* C21 (as stated): the result list holds only error-free results; a trial
\* that ended with any error kind is not appended, ends the frequency loop of
\* its voltage, and the sweep goes on to the next voltage.
C21_FailedTrialGoesToNextVoltage ==
    /\ [](\A i \in 1..Len(results) : results[i].error_reason = NoError)
    /\ [][FailedTrialDecided =>
            /\ results' = results
            /\ pc' = "outer"
            /\ v_step' = v_step + 1
            /\ ~abort_all']_vars

\* C21 (amended): the result list holds only error-free results; a trial that
\* ended with an error is not appended and ends the frequency loop of its
\* voltage; the sweep goes on to the next voltage, unless the error is
\* CHIP_TEMP_EXCEEDED at the starting frequency, which ends the whole sweep.
C21_FailedTrialDiscarded ==
    /\ [](\A i \in 1..Len(results) : results[i].error_reason = NoError)
    /\ [][FailedTrialDecided =>
            /\ results' = results
            /\ IF result.error_reason = "CHIP_TEMP_EXCEEDED" /\ freq = initial_freq
               THEN abort_all' /\ pc' = "final" /\ v_step' = v_step
               ELSE ~abort_all' /\ pc' = "outer" /\ v_step' = v_step + 1]_vars

\* a trial failed its telemetry reads, was discarded, and the sweep stands at
\* the next voltage of the ladder with the results recorded before
C21_Witness ==
    /\ pc = "outer"
    /\ last_trial.outcome = "SYSTEM_INFO_FAILURE"
    /\ v_step = last_trial.step + 1
    /\ v_step <= Len(voltage_levels)
    /\ results # <<>>

\* C22: the verdict on a telemetry read is the error kind of the first check
\* that fails, the checks being made in the order unavailable, chip
\* temperature missing, below 5, at or above its ceiling, regulator temperature
\* at or above its ceiling, input voltage below the band, above the band, hash
\* rate or power missing, power above its ceiling; the reading is accepted
\* exactly when no check fails.
C22_FirstFailingCheck ==
    calc.op = "check_sample" =>
        LET unavailable == calc.input = None
            r == IF unavailable
                 THEN [temp |-> Absent, vrTemp |-> Absent, voltage |-> Absent,
                       hashRate |-> Absent, power |-> Absent]
                 ELSE calc.input[1]
            input_voltage == IF r.voltage = Absent THEN 0 ELSE r.voltage
            kinds == <<"SYSTEM_INFO_FAILURE", "TEMPERATURE_DATA_FAILURE", "TEMPERATURE_BELOW_5",
                       "CHIP_TEMP_EXCEEDED", "VR_TEMP_EXCEEDED", "INPUT_VOLTAGE_BELOW_MIN",
                       "INPUT_VOLTAGE_ABOVE_MAX", "HASHRATE_POWER_DATA_FAILURE",
                       "POWER_CONSUMPTION_EXCEEDED">>
            fails == <<unavailable,
                       r.temp = Absent,
                       r.temp # Absent /\ r.temp < 5,
                       r.temp # Absent /\ r.temp >= max_temp,
                       r.vrTemp # Absent /\ r.vrTemp >= max_vr_temp,
                       input_voltage < min_input_voltage,
                       input_voltage > max_input_voltage,
                       r.hashRate = Absent \/ r.power = Absent,
                       r.power # Absent /\ r.power > max_power>>
            failing == {i \in 1..9 : fails[i]}
        IN  /\ calc.output = NoError <=> failing = {}
            /\ failing # {} =>
                  \E i \in failing :
                      /\ \A j \in failing : i <= j
                      /\ calc.output = kinds[i]

\* a reading that breaches both temperature ceilings was judged: the chip's
\* ceiling, checked first, gives the verdict
C22_Witness ==
    /\ calc.op = "check_sample"
    /\ calc.input # None
    /\ calc.input[1].temp >= max_temp
    /\ calc.input[1].vrTemp >= max_vr_temp
    /\ calc.output = "CHIP_TEMP_EXCEEDED"

\* C23: an iteration goes on only while every read it made was accepted (as
\* many samples as reads); a rejected read ends it at once with a result that
\* carries the error kind and nothing of the samples accepted before, and that
\* result is not recorded.
C23_RejectionEndsIteration ==
    /\ [](pc \in {"iter", "sample"} =>
            (Len(hash_rates) = sample_num /\ last_trial.samples = sample_num))
    /\ [](pc = "sample_sleep" => Len(hash_rates) = sample_num + 1)
    /\ [][(pc = "sample" /\ pc' = "decide") =>
            /\ result'.error_reason # NoError
            /\ result'.hr_sum = 0
            /\ hash_rates' = <<>>
            /\ results' = results]_vars
    /\ [][(pc = "decide" /\ result.error_reason # NoError /\ pc' # pc) =>
            (results' = results /\ pc' \notin {"iter", "sample", "sample_sleep"})]_vars

\* a reading was rejected after a sample of the same iteration had been
\* accepted, and the trial left no result
C23_Witness ==
    /\ pc \in {"outer", "final"}
    /\ last_trial.outcome = "CHIP_TEMP_EXCEEDED"
    /\ last_trial.samples >= 1
    /\ ~LastTrialRecorded

\* C24: the telemetry fetch of the sampler makes at most 3 attempts per
\* sample; a failed attempt other than the third is followed by one more
\* attempt, SYSTEM_INFO_FAILURE is reported only when the third has failed, no
\* fourth attempt is made, and an attempt that gives a reading ends the fetch.
C24_ThreeReadAttempts ==
    /\ [](pc = "sample" => attempt \in 0..2)
    /\ [][(pc = "sample" /\ pc' = "decide" /\ result'.error_reason = "SYSTEM_INFO_FAILURE")
             => attempt = 2]_vars
    /\ [][(pc = "sample" /\ pc' = "sample" /\ attempt' # attempt)
             => (attempt' = attempt + 1 /\ attempt < 2
                   /\ UNCHANGED <<hash_rates, sample_num, result>>)]_vars
    /\ [][(pc = "sample" /\ attempt = 2 /\ pc' = "sample")
             => UNCHANGED <<attempt, hash_rates, sample_num, result>>]_vars
    /\ [][(pc = "sample" /\ hash_rates' # hash_rates /\ hash_rates' # <<>>)
             => pc' \in {"sample_sleep", "iter"}]_vars

\* two attempts failed and the third gave a reading, which was accepted as a
\* sample
C24_Witness ==
    /\ pc = "sample_sleep"
    /\ attempt = 2
    /\ Len(hash_rates) = 1

\* C25: after a sample is accepted the sampler enters the inter-sample sleep
\* unless the sample was the last planned one or a stop has been requested:
\* no inter-sample sleep begins once a stop is requested.
C25_NoSleepAfterStop ==
    [][(pc = "sample" /\ hash_rates' # hash_rates /\ hash_rates' # <<>>) =>
          (pc' = "sample_sleep" <=>
              (sample_num < TotalSamples - 1 /\ ~stop_requested))]_vars

\* the step in which _apply_settings returns False to a trial
TrialApplyFails ==
    /\ last_trial.outcome = "pending"
    /\ last_trial'.outcome = "STABILIZATION_FAILED"

\* C26: when applying a trial candidate fails (write, restart or
\* stabilization), no iteration is run for it, nothing is recorded, the
\* iteration counter stays, and only the current voltage is abandoned: the
\* next trial, if there is one, is at the next ladder voltage and the starting
\* frequency, and is not started after a stop request.
C26_FailedApplyAbandonsVoltage ==
    /\ [][TrialApplyFails =>
            /\ pc \in {"set", "restart", "stab", "stab_info"}
            /\ pc' = "outer"
            /\ results' = results
            /\ iteration_num' = iteration_num
            /\ v_step' = v_step + 1
            /\ ~abort_all'
            /\ last_trial'.samples = 0]_vars
    /\ [][(TrialStarts /\ last_trial.outcome = "STABILIZATION_FAILED") =>
            /\ ~stop_requested
            /\ last_trial.step < Len(voltage_levels)
            /\ apply'.voltage = voltage_levels[last_trial.step + 1]
            /\ apply'.frequency = initial_freq
            /\ iteration_num' = iteration_num]_vars

\* the trial after a failed application is under way at the next ladder
\* voltage and the starting frequency
C26_Witness ==
    /\ pc = "set"
    /\ apply.caller = "trial"
    /\ prev_trial.outcome = "STABILIZATION_FAILED"
    /\ last_trial.step = prev_trial.step + 1
    /\ last_trial.frequency = initial_freq
    /\ last_trial.voltage > prev_trial.voltage

\* the stabilization wait of a trial ends in this step
TrialWaitEnds == pc \in {"stab", "stab_info"} /\ apply.caller = "trial" /\ pc' \notin StabPcs

C28_EventsFollowResults ==
    /\ [](/\ Len(events.iteration_complete) = Len(results)
          /\ \A i \in 1..Len(results) :
                events.iteration_complete[i].result = results[i]
          /\ \A i, j \in 1..Len(events.iteration_complete) :
                i < j => events.iteration_complete[i].iteration_number
                           < events.iteration_complete[j].iteration_number)
    /\ [][/\ FailedTrialDecided =>
                events'.iteration_complete = events.iteration_complete
          /\ events'.status # events.status =>
                /\ events'.status # None
                /\ events'.status[1].state = state'
                /\ events'.status[1].iterations_completed = Len(results')]_vars

\* two results were recorded and two events emitted, a trial was then
\* discarded, and the last status event counted both results
C28_Witness ==
    /\ Len(results) = 2
    /\ Len(events.iteration_complete) = 2
    /\ events.iteration_complete[2].iteration_number = 2
    /\ iteration_num = 3
    /\ last_trial.outcome \notin {"none", "pending", "OK_WITHIN", "OK_BELOW",
                                  "STABILIZATION_FAILED"}
    /\ events.status = StatusEvent(COMPLETED, 2)

\* the step in which client.set_settings puts a trial candidate on the device
TrialCandidateWritten ==
    pc = "set" /\ apply.caller = "trial" /\ pc' = "restart"

\* C29: every trial candidate written to the device has a voltage within
\* [min_allowed_voltage, max_allowed_voltage] and a frequency within
\* [min_allowed_frequency, min(caller-supplied frequency ceiling,
\* max_allowed_frequency)].
C29_CandidatesWithinBounds ==
    [][TrialCandidateWritten =>
          /\ dev_voltage' >= min_allowed_voltage
          /\ dev_voltage' <= max_allowed_voltage
          /\ dev_frequency' >= min_allowed_frequency
          /\ dev_frequency' <= max_allowed_frequency
          /\ args.max_frequency # None =>
                dev_frequency' <= args.max_frequency[1]]_vars

\* C30: every result appended to the result list was aggregated from all
\* TotalSamples planned samples of its iteration: an iteration cut short by a
\* stop request is not recorded.
C30_RecordedFromAllSamples ==
    [][Len(results') > Len(results) => last_trial.samples = TotalSamples]_vars

\* the positions at which a device operation of the run is in progress: the
\* capability fetch, a settings write, a restart, a telemetry read
DeviceOperationPcs == {"fetch", "set", "restart", "stab_info", "sample"}
GatePcs == {"wait_outer", "wait_inner"}

\* C31 (as stated): whenever the state is PAUSED the controller has no device
\* operation in progress.
C31_NoDeviceOperationWhilePaused ==
    state = PAUSED => pc \notin DeviceOperationPcs

\* C31: while the state is PAUSED and no stop is requested the controller is
\* blocked on the resume gate; after a resume the state leaves PAUSED in the
\* step that passes the gate; after a stop the state stays PAUSED while the
\* loops are left and the final settings application (and nothing else) is
\* issued to the device, until the run is COMPLETED.
C31_PausedUntilResumeOrFinalApply ==
    /\ []((state = PAUSED /\ ~stop_requested) => pc \in GatePcs)
    /\ []((state = PAUSED /\ pc \notin GatePcs) =>
             /\ stop_requested
             /\ pc \in {"outer", "final", "set", "restart"}
             /\ pc \in {"set", "restart"} => apply.caller = "final")
    /\ [][(state = PAUSED /\ pc \in GatePcs /\ pc' \notin GatePcs /\ ~stop_requested)
             => state' \in {RUNNING, STABILIZING}]_vars
    /\ [][(state = PAUSED /\ state' # PAUSED /\ stop_requested)
             => (state' = COMPLETED /\ final_applies' = 1)]_vars

\* stopped while parked: the restart of the final settings application is in
\* progress and the state is still PAUSED
C31_Witness ==
    /\ state = PAUSED
    /\ stop_requested
    /\ pc = "restart"
    /\ apply.caller = "final"
    /\ dev_voltage = apply.voltage
    /\ dev_frequency = apply.frequency

\* C32: while a task is active, every stop request the service has accepted
\* was delivered to the runner that executes the task (its stop flag is set),
\* also after the configuration was updated during the run.
C32_AcceptedStopIsDelivered ==
    (TaskActive(current_task) /\ service.stop_accepted) => stop_requested

\* the positions at which the set_values call has a device operation in
\* progress
SetValuesOperationPcs == {"set", "restart", "stab_info"}

\* C33: a set-values operation and a benchmark run never have device
\* operations in progress at the same time.
C33_OneDeviceOperationAtATime ==
    ~(pc \in DeviceOperationPcs /\ setv.pc \in SetValuesOperationPcs)

\* C34: set_values fails only on what the device answered during the call: a
\* failed settings write, a failed restart, a ceiling breach or three failed
\* reads in a row during stabilization.
C34_SetValuesFailsOnlyOnDevice ==
    setv.response = "failed" => setv.cause \in {"write", "restart", "breach", "reads"}

\* C35: a temperature override applies to the run it was supplied to only:
\* when no run is under way, and during a run started without an override,
\* the chip-temperature ceiling in force is the configured max_temp.
C35_OverrideEndsWithRun ==
    (~TaskActive(current_task) \/ args.max_temp_override = NoArg) =>
        safety_max_temp = max_temp

\* C36: within one voltage level the trial frequencies are strictly
\* increasing: the frequency tried after a trial within tolerance is above the
\* frequency of that trial, for every accepted configuration (so the
\* frequency loop reaches the ceiling and the run ends).
C36_TrialFrequenciesIncrease ==
    calc.op = "next_frequency" => calc.output > calc.input.freq

\* the step in which the settings write of the final settings application
\* fails and run() returns (the final application never gets past the write
\* otherwise)
FinalWriteFails == apply.caller = "final" /\ pc = "set" /\ pc' = "done"

\* C37: when the final settings write fails, the completion summary does not
\* report a pair as applied.
C37_FailedFinalApplyNotReported ==
    [][FinalWriteFails => completion'.applied_settings = None]_vars

\* the step in which reset_benchmark, having requested the stop of the active
\* run and waited for its task, resets the runner
ResetAfterWait == reset_waiting /\ ~reset_waiting'

\* C38: a reset during an active run leaves the device at no trial candidate:
\* when the runner is reset after a sweep that wrote a trial candidate (and did
\* not end in ERROR), the run's final settings application has been made.
C38_ResetAfterFinalApply ==
    [][(ResetAfterWait /\ trial_written /\ state # ERROR) => final_applies = 1]_vars
=============================================================================
